---- MODULE Spec2Model ----
(***************************************************************************)
(* Client-side event reconciliation and text composition of the keyboard   *)
(* interception / text-to-speech utility (store src/src/stores/keyboard.ts *)
(* and the components that drive it).                                      *)
(*                                                                         *)
(* A text is a sequence of characters; a character is a one-letter string, *)
(* or "uXXXX" (its code point) for a Cyrillic letter, a quote, a backtick  *)
(* and a backslash.  Every await of the                                    *)
(* source is a suspension point: the part of a handler before it and the   *)
(* continuation after it are separate actions, and everything that runs    *)
(* synchronously (and the reactive watcher of the text, which runs before  *)
(* any other task) belongs to the action that triggers it.                 *)
(***************************************************************************)
EXTENDS Integers, Sequences, FiniteSets, TLC

VARIABLES
    \* ---- store state: keys and composed text (keyboard.ts 50-66)
    blockingEnabled, capsLock, inputLanguage, interceptedKeys, latestKey,
    interceptedText, lastProcessedSeqNum, fetchingKeys, pendingTextUpdate,
    textUpdateScheduled,
    \* ---- requestAnimationFrame callbacks of scheduleTextUpdate not yet run
    scheduledFrames,
    \* ---- the hook side of the bridge and the messages in flight
    hookKeys, hookNextSeq, pushChan, pulls, clearReq,
    \* ---- store state: TTS (keyboard.ts 68-83)
    isPlaying, continuousPlay, ttsHistory, toast,
    \* ---- segmenter guard of TtsPlaybackControls
    isProcessingSpeech,
    \* ---- enqueue calls: ids minted, requests in flight
    tempCount, enqueues,
    \* ---- the TTS side of the bridge and the messages in flight
    srvHistory, srvEvents, fetches, cmds,
    \* ---- hotkey / window state
    hotkeyMode, overlayPreviousWindowSaved, lastHotkeyCallTime, now, win,
    handlers, hotkeyCalls, windowCmds,
    \* ---- save_previous_window calls since overlayPreviousWindowSaved was cleared
    sessionSaves,
    \* ---- the value the textarea's input event last assigned (v-model)
    inputValue,
    \* ---- clicks of the play button handled so far
    playCalls,
    \* ---- notifications: due times of showToast's timeouts, the Toast
    \* ---- component's visible flag and hideTimer, the last showToast call and
    \* ---- what last hid the notification
    toastTimers, visible, hideTimer, toastShown, hiddenBy,
    \* ---- listener registration: the store's two guard flags and the handlers
    \* ---- registered for a TTS event type and for a state event type
    ttsHistoryInitialized, stateEventListenersInitialized, ttsListeners, stateListeners

keyVars == <<blockingEnabled, capsLock, inputLanguage, interceptedKeys, latestKey,
             lastProcessedSeqNum, fetchingKeys, pendingTextUpdate,
             textUpdateScheduled, scheduledFrames, hookKeys, hookNextSeq, pushChan, pulls, clearReq>>
textVars == <<interceptedText, isProcessingSpeech, ttsHistory, tempCount, enqueues>>
ttsVars == <<isPlaying, continuousPlay, toast, srvHistory, srvEvents, fetches, cmds>>
hkVars == <<hotkeyMode, overlayPreviousWindowSaved, lastHotkeyCallTime, now, win,
            handlers, hotkeyCalls, windowCmds, sessionSaves>>
uiVars == <<inputValue, playCalls>>
toastVars == <<toastTimers, visible, hideTimer, toastShown, hiddenBy>>
listenVars == <<ttsHistoryInitialized, stateEventListenersInitialized, ttsListeners,
                stateListeners>>
vars == <<keyVars, textVars, ttsVars, hkVars, uiVars, toastVars, listenVars>>

----------------------------------------------------------------------------
(* Bounds of the model *)

\* key events the hook produces in one behaviour
MaxKeys == 2
\* get_intercepted_keys requests in flight at once
MaxPulls == 2
\* speakTextWithHistory calls in one behaviour
MaxEnqueue == 2
\* get_tts_history requests in flight at once
MaxFetch == 1
\* delete / toggle-lock / cancel commands in flight at once
MaxCmds == 1
\* pushed TTS events not yet delivered when a history command is sent
MaxEvents == 2
\* hotkey triggers in one behaviour
MaxTriggers == 3
\* clock ticks in one behaviour
MaxTicks == 6
\* input events of the textarea in one behaviour
MaxInputs == 3

----------------------------------------------------------------------------
(* Small helpers *)

Max(a, b) == IF a >= b THEN a ELSE b

\* seq without its element at index i
RemoveAt(s, i) == SubSeq(s, 1, i - 1) \o SubSeq(s, i + 1, Len(s))

\* all orderings of the elements of sequence s
Orderings(s) ==
    { [i \in 1..Len(s) |-> s[p[i]]] :
        p \in { q \in [1..Len(s) -> 1..Len(s)] :
                  \A i, j \in 1..Len(s) : q[i] = q[j] => i = j } }

----------------------------------------------------------------------------
(* Characters and the locale key translator (processInterceptedKey) *)

ruLayout ==
       ("Q" :> "u0419") @@ ("W" :> "u0426") @@ ("E" :> "u0423") @@ ("R" :> "u041A") @@ ("T" :> "u0415") @@
       ("Y" :> "u041D") @@ ("U" :> "u0413") @@ ("I" :> "u0428") @@ ("O" :> "u0429") @@ ("P" :> "u0417") @@
       ("A" :> "u0424") @@ ("S" :> "u042B") @@ ("D" :> "u0412") @@ ("F" :> "u0410") @@ ("G" :> "u041F") @@
       ("H" :> "u0420") @@ ("J" :> "u041E") @@ ("K" :> "u041B") @@ ("L" :> "u0414") @@ ("Z" :> "u042F") @@
       ("X" :> "u0427") @@ ("C" :> "u0421") @@ ("V" :> "u041C") @@ ("B" :> "u0418") @@ ("N" :> "u0422") @@
       ("M" :> "u042C") @@ ("q" :> "u0439") @@ ("w" :> "u0446") @@ ("e" :> "u0443") @@ ("r" :> "u043A") @@
       ("t" :> "u0435") @@ ("y" :> "u043D") @@ ("u" :> "u0433") @@ ("i" :> "u0448") @@ ("o" :> "u0449") @@
       ("p" :> "u0437") @@ ("a" :> "u0444") @@ ("s" :> "u044B") @@ ("d" :> "u0432") @@ ("f" :> "u0430") @@
       ("g" :> "u043F") @@ ("h" :> "u0440") @@ ("j" :> "u043E") @@ ("k" :> "u043B") @@ ("l" :> "u0434") @@
       ("z" :> "u044F") @@ ("x" :> "u0447") @@ ("c" :> "u0441") @@ ("v" :> "u043C") @@ ("b" :> "u0438") @@
       ("n" :> "u0442") @@ ("m" :> "u044C")

\* lower-case letter -> upper-case letter (String.prototype.toUpperCase on one letter)
UpperOf ==
       ("a" :> "A") @@ ("b" :> "B") @@ ("c" :> "C") @@ ("d" :> "D") @@ ("e" :> "E") @@
       ("f" :> "F") @@ ("g" :> "G") @@ ("h" :> "H") @@ ("i" :> "I") @@ ("j" :> "J") @@
       ("k" :> "K") @@ ("l" :> "L") @@ ("m" :> "M") @@ ("n" :> "N") @@ ("o" :> "O") @@
       ("p" :> "P") @@ ("q" :> "Q") @@ ("r" :> "R") @@ ("s" :> "S") @@ ("t" :> "T") @@
       ("u" :> "U") @@ ("v" :> "V") @@ ("w" :> "W") @@ ("x" :> "X") @@ ("y" :> "Y") @@
       ("z" :> "Z") @@ ("u0451" :> "u0401") @@ ("u0430" :> "u0410") @@ ("u0431" :> "u0411") @@ ("u0432" :> "u0412") @@
       ("u0433" :> "u0413") @@ ("u0434" :> "u0414") @@ ("u0435" :> "u0415") @@ ("u0436" :> "u0416") @@ ("u0437" :> "u0417") @@
       ("u0438" :> "u0418") @@ ("u0439" :> "u0419") @@ ("u043A" :> "u041A") @@ ("u043B" :> "u041B") @@ ("u043C" :> "u041C") @@
       ("u043D" :> "u041D") @@ ("u043E" :> "u041E") @@ ("u043F" :> "u041F") @@ ("u0440" :> "u0420") @@ ("u0441" :> "u0421") @@
       ("u0442" :> "u0422") @@ ("u0443" :> "u0423") @@ ("u0444" :> "u0424") @@ ("u0445" :> "u0425") @@ ("u0446" :> "u0426") @@
       ("u0447" :> "u0427") @@ ("u0448" :> "u0428") @@ ("u0449" :> "u0429") @@ ("u044A" :> "u042A") @@ ("u044B" :> "u042B") @@
       ("u044C" :> "u042C") @@ ("u044D" :> "u042D") @@ ("u044E" :> "u042E") @@ ("u044F" :> "u042F")

toUpperCase(c) ==
    IF c \in DOMAIN UpperOf THEN UpperOf[c] ELSE c

\* a case folding that leaves the letter as it is
KeepCase(c) == c

toLowerCase(c) ==
    IF \E l \in DOMAIN UpperOf : UpperOf[l] = c
    THEN CHOOSE l \in DOMAIN UpperOf : UpperOf[l] = c
    ELSE c

\* key names that contain the reserved combo (key_name.includes('Win+Esc'))
WinEscNames == {"Win+Esc", "Left Win+Esc"}

\* key_name.startsWith('Digit ') and key_name.slice(6)
DigitOf ==
    ("Digit 0" :> "0") @@ ("Digit 1" :> "1") @@ ("Digit 2" :> "2") @@ ("Digit 3" :> "3") @@
    ("Digit 4" :> "4") @@ ("Digit 5" :> "5") @@ ("Digit 6" :> "6") @@ ("Digit 7" :> "7") @@
    ("Digit 8" :> "8") @@ ("Digit 9" :> "9")

\* the punctuation keys: physical key -> <<character under 'en', character under 'ru'>>
SymbolOf ==
    ("Comma" :> <<",", "u0431">>) @@ ("Period" :> <<".", "u044E">>) @@
    ("Slash" :> <<"/", ".">>) @@ ("Semicolon" :> <<";", "u0436">>) @@
    ("Quote" :> <<"u0027", "u044D">>) @@ ("Backtick" :> <<"u0060", "u0451">>) @@
    ("Left Bracket" :> <<"[", "u0445">>) @@ ("Right Bracket" :> <<"]", "u044A">>) @@
    ("Backslash" :> <<"u005C", "u0451">>) @@ ("Minus" :> <<"-", "-">>) @@
    ("Equals" :> <<"=", "=">>)

\* a slice that drops nothing
KeepText(t) == t

\* text.slice(0, -1)
DropLast(t) == IF Len(t) = 0 THEN t ELSE SubSeq(t, 1, Len(t) - 1)

\* a translator that puts the name of every key into the pending buffer
processLeakingNames(st, name, lang, caps) == [st EXCEPT !.pending = Append(@, name)]

\* processInterceptedKey on the pair st = [text, pending] under layout lang and
\* caps-lock caps
processInterceptedKey(st, name, lang, caps) ==
    IF name \in WinEscNames THEN st
    ELSE IF name = "Backspace" THEN [text |-> DropLast(st.text), pending |-> <<>>]
    ELSE IF name = "Enter" THEN [st EXCEPT !.pending = Append(@, "\n")]
    ELSE IF name = "Space" THEN [st EXCEPT !.pending = Append(@, " ")]
    ELSE IF name = "Tab" THEN [st EXCEPT !.pending = Append(@, "\t")]
    ELSE IF name \in DOMAIN SymbolOf
      THEN [st EXCEPT !.pending =
              Append(@, IF lang = "ru" THEN SymbolOf[name][2] ELSE SymbolOf[name][1])]
    ELSE IF name \in DOMAIN DigitOf THEN [st EXCEPT !.pending = Append(@, DigitOf[name])]
    ELSE IF Len(name) = 1
      THEN LET result == IF lang = "ru"
                         THEN (IF name \in DOMAIN ruLayout THEN ruLayout[name] ELSE name)
                         ELSE name
           IN  [st EXCEPT !.pending =
                  Append(@, IF caps THEN toUpperCase(result) ELSE toLowerCase(result))]
    ELSE st

----------------------------------------------------------------------------
(* speakTextWithHistory and the continuous-play segmenter *)

IsTemp(id) == id[1] = "temp"

\* the optimistic entry of the n-th speakTextWithHistory call
TempMessage(n, text) ==
    [id |-> <<"temp", n>>, text |-> text, timestamp |-> now \div 1000,
     status |-> "queued", locked |-> FALSE]

\* speakTextWithHistory with push in the place of unshift
SpeakTextAtEnd(text) ==
    /\ tempCount < MaxEnqueue
    /\ tempCount' = tempCount + 1
    /\ ttsHistory' = ttsHistory \o <<TempMessage(tempCount + 1, text)>>
    /\ enqueues' = enqueues \cup {[n |-> tempCount + 1, text |-> text, st |-> "sent"]}

\* speakTextWithHistory(text): mint a provisional id, unshift the optimistic
\* entry, send enqueue_tts without waiting for the answer
SpeakTextWithHistory(text) ==
    /\ tempCount < MaxEnqueue
    /\ tempCount' = tempCount + 1
    /\ ttsHistory' = <<TempMessage(tempCount + 1, text)>> \o ttsHistory
    /\ enqueues' = enqueues \cup {[n |-> tempCount + 1, text |-> text, st |-> "sent"]}

Terminators == {".", "?", "!"}

\* index of a terminator of t found scanning from the end, 0 when there is none
\* (a match of the last terminator instead of the first)
RECURSIVE LastTerminator(_, _)
LastTerminator(t, i) ==
    IF Len(t) - i + 1 < 1 THEN 0
    ELSE IF t[Len(t) - i + 1] \in Terminators THEN Len(t) - i + 1
    ELSE LastTerminator(t, i + 1)

\* text.match(/[.?!]/).index + 1, or 0 when there is no match
RECURSIVE FirstTerminator(_, _)
FirstTerminator(t, i) ==
    IF i > Len(t) THEN 0
    ELSE IF t[i] \in Terminators THEN i
    ELSE FirstTerminator(t, i + 1)

\* a watcher that does not look for a terminator
WatcherFiresOnAnyText(newText) ==
    /\ continuousPlay
    /\ newText # <<>>
    /\ ~isPlaying
    /\ ~isProcessingSpeech

\* a watcher that does not test isProcessingSpeech
WatcherIgnoringCooldown(newText) ==
    /\ continuousPlay
    /\ newText # <<>>
    /\ ~isPlaying
    /\ FirstTerminator(newText, 1) > 0

\* the guard of the watcher of interceptedText in TtsPlaybackControls, and its match
WatcherFires(newText) ==
    /\ continuousPlay
    /\ newText # <<>>
    /\ ~isPlaying
    /\ ~isProcessingSpeech
    /\ FirstTerminator(newText, 1) > 0

\* a watcher that clears the field when it splits
WriteTextClearing(t) ==
    IF t # interceptedText /\ WatcherFires(t)
    THEN LET idx == FirstTerminator(t, 1) IN
         /\ interceptedText' = <<>>
         /\ isProcessingSpeech' = TRUE
         /\ SpeakTextWithHistory(SubSeq(t, 1, idx))
    ELSE /\ interceptedText' = t
         /\ UNCHANGED <<isProcessingSpeech, ttsHistory, tempCount, enqueues>>

\* An assignment of t to interceptedText at the end of a handler, with the run of
\* the watcher it triggers (the watcher runs only when the value changed)
WriteText(t) ==
    IF t # interceptedText /\ WatcherFires(t)
    THEN LET idx == FirstTerminator(t, 1) IN
         /\ interceptedText' = SubSeq(t, idx + 1, Len(t))
         /\ isProcessingSpeech' = TRUE
         /\ SpeakTextWithHistory(SubSeq(t, 1, idx))
    ELSE /\ interceptedText' = t
         /\ UNCHANGED <<isProcessingSpeech, ttsHistory, tempCount, enqueues>>

\* setTimeout(() => isProcessingSpeech = false, 100)
CooldownExpired ==
    /\ isProcessingSpeech
    /\ isProcessingSpeech' = FALSE
    /\ UNCHANGED <<interceptedText, ttsHistory, tempCount, enqueues>>
    /\ UNCHANGED <<keyVars, ttsVars, hkVars, listenVars, uiVars, toastVars>>

\* the play button is enabled (:disabled="isPlaying || !hasText")
PlayEnabled == ~isPlaying /\ interceptedText # <<>>

\* handlePlay: in continuous mode the text up to its first terminator, otherwise
\* (or without a terminator) the whole text, is spoken and taken out of the
\* field; the watcher then runs on the text that remains
HandlePlay ==
    /\ PlayEnabled
    /\ LET text == interceptedText
           idx == IF continuousPlay THEN FirstTerminator(text, 1) ELSE 0
           toSpeak == IF idx > 0 THEN SubSeq(text, 1, idx) ELSE text
           remaining == IF idx > 0 THEN SubSeq(text, idx + 1, Len(text)) ELSE <<>>
           first == TempMessage(tempCount + 1, toSpeak)
           firstReq == [n |-> tempCount + 1, text |-> toSpeak, st |-> "sent"]
       IN
       IF WatcherFires(remaining)
       THEN LET k == FirstTerminator(remaining, 1) IN
            /\ tempCount + 1 < MaxEnqueue
            /\ tempCount' = tempCount + 2
            /\ ttsHistory' = <<TempMessage(tempCount + 2, SubSeq(remaining, 1, k)), first>>
                                \o ttsHistory
            /\ enqueues' = enqueues \cup
                  {firstReq, [n |-> tempCount + 2, text |-> SubSeq(remaining, 1, k),
                              st |-> "sent"]}
            /\ interceptedText' = SubSeq(remaining, k + 1, Len(remaining))
            /\ isProcessingSpeech' = TRUE
       ELSE /\ SpeakTextWithHistory(toSpeak)
            /\ interceptedText' = remaining
            /\ UNCHANGED isProcessingSpeech
    /\ playCalls' = playCalls + 1
    /\ UNCHANGED inputValue
    /\ UNCHANGED <<keyVars, ttsVars, hkVars, listenVars, toastVars>>

\* Ctrl+Enter in the main window: the whole text is spoken and the field cleared
CtrlEnter ==
    /\ interceptedText # <<>>
    /\ SpeakTextWithHistory(interceptedText)
    /\ interceptedText' = <<>>
    /\ playCalls' = playCalls + 1
    /\ UNCHANGED <<inputValue, isProcessingSpeech>>
    /\ UNCHANGED <<keyVars, ttsVars, hkVars, listenVars, toastVars>>

\* the textarea's input event: v-model assigns the new value to interceptedText
TextInput(t) ==
    /\ inputValue.n < MaxInputs
    /\ inputValue' = [n |-> inputValue.n + 1, text |-> t]
    /\ UNCHANGED playCalls
    /\ WriteText(t)
    /\ UNCHANGED <<keyVars, ttsVars, hkVars, listenVars, toastVars>>

\* listen('continuous_play_changed')
ContinuousPlayChanged(enabled) ==
    /\ continuousPlay # enabled
    /\ continuousPlay' = enabled
    /\ UNCHANGED <<isPlaying, toast, srvHistory, srvEvents, fetches, cmds>>
    /\ UNCHANGED <<keyVars, textVars, hkVars, listenVars, uiVars, toastVars>>

\* fetchTtsStatus after its await: the backend's status is stored
FetchTtsStatusDone(is_speaking, continuous_play) ==
    /\ isPlaying' = is_speaking
    /\ continuousPlay' = continuous_play
    /\ UNCHANGED <<toast, srvHistory, srvEvents, fetches, cmds>>
    /\ UNCHANGED <<keyVars, textVars, hkVars, listenVars, uiVars, toastVars>>

----------------------------------------------------------------------------
(* Sequence watermark tracker and batched text mutator *)

KeyNames == {"A", "Period", "Backspace"}

None == [key_name |-> "none", seq_num |-> -1]

\* a batch taken in the order of the response
KeepOrder(keys) == keys

\* [...keys].sort((a, b) => a.seq_num - b.seq_num)
RECURSIVE SortBySeq(_)
SortBySeq(keys) ==
    IF Len(keys) <= 1 THEN keys
    ELSE LET m == CHOOSE i \in 1..Len(keys) :
                    \A j \in 1..Len(keys) :
                       \/ keys[i].seq_num < keys[j].seq_num
                       \/ (keys[i].seq_num = keys[j].seq_num /\ i <= j)
         IN  <<keys[m]>> \o SortBySeq(RemoveAt(keys, m))

\* Math.max(...keys.map(k => k.seq_num))
RECURSIVE MaxSeq(_)
MaxSeq(keys) ==
    IF Len(keys) = 1 THEN keys[1].seq_num
    ELSE Max(keys[1].seq_num, MaxSeq(Tail(keys)))

\* for (const key of keys) processInterceptedKey(key)
RECURSIVE ProcessAll(_, _, _, _)
ProcessAll(st, keys, lang, caps) ==
    IF keys = <<>> THEN st
    ELSE ProcessAll(processInterceptedKey(st, keys[1].key_name, lang, caps),
                    Tail(keys), lang, caps)

\* the store's text pair
TextState == [text |-> interceptedText, pending |-> pendingTextUpdate]

\* the calls of the handlers registered for an event: one per handler
Copies(n, e) == [i \in 1..n |-> e]

\* The hook intercepts a key: it gets the next sequence number, is kept in the
\* hook's buffer and is pushed as a key_intercepted event
HookKey(name) ==
    /\ hookNextSeq < MaxKeys
    /\ LET key == [key_name |-> name, seq_num |-> hookNextSeq] IN
       /\ hookKeys' = Append(hookKeys, key)
       /\ pushChan' = pushChan \o Copies(stateListeners, key)
    /\ hookNextSeq' = hookNextSeq + 1
    /\ UNCHANGED <<blockingEnabled, capsLock, inputLanguage, interceptedKeys, latestKey,
                   lastProcessedSeqNum, fetchingKeys, pendingTextUpdate,
                   textUpdateScheduled, scheduledFrames, pulls, clearReq>>
    /\ UNCHANGED <<textVars, ttsVars, hkVars, listenVars, uiVars, toastVars>>

\* a scheduleTextUpdate that registers nothing
scheduleNothing == UNCHANGED <<textUpdateScheduled, scheduledFrames>>

\* scheduleTextUpdate without its guard
scheduleAlways ==
    /\ textUpdateScheduled' = TRUE
    /\ scheduledFrames' = scheduledFrames + 1

\* scheduleTextUpdate: a no-op while a flush is scheduled, otherwise the flag is
\* set and one requestAnimationFrame callback is registered
scheduleTextUpdate ==
    IF textUpdateScheduled
    THEN UNCHANGED <<textUpdateScheduled, scheduledFrames>>
    ELSE /\ textUpdateScheduled' = TRUE
         /\ scheduledFrames' = scheduledFrames + 1

\* what the key_intercepted handler keeps as its watermark
PushWatermark(last, seq) == Max(last, seq)

\* a key_intercepted handler that applies every key
AlwaysApplies(blocking, last, seq) == TRUE

\* whether the key_intercepted handler applies the key to the text
PushApplies(blocking, last, seq) == blocking

\* listen('key_intercepted'): the oldest pushed event is delivered
KeyIntercepted ==
    /\ pushChan # <<>>
    /\ LET key == Head(pushChan)
           st == IF PushApplies(blockingEnabled, lastProcessedSeqNum, key.seq_num)
                 THEN processInterceptedKey(TextState, key.key_name, inputLanguage, capsLock)
                 ELSE TextState
       IN
       /\ pushChan' = Tail(pushChan)
       /\ lastProcessedSeqNum' = PushWatermark(lastProcessedSeqNum, key.seq_num)
       /\ interceptedKeys' = Append(interceptedKeys, key)
       /\ latestKey' = key
       /\ WriteText(st.text)
       /\ pendingTextUpdate' = st.pending
       /\ IF blockingEnabled THEN scheduleTextUpdate
          ELSE UNCHANGED <<textUpdateScheduled, scheduledFrames>>
    /\ UNCHANGED <<blockingEnabled, capsLock, inputLanguage, fetchingKeys, hookKeys,
                   hookNextSeq, pulls, clearReq>>
    /\ UNCHANGED <<ttsVars, hkVars, listenVars, uiVars, toastVars>>

\* requestAnimationFrame callback of scheduleTextUpdate
FlushTextUpdate ==
    /\ scheduledFrames > 0
    /\ scheduledFrames' = scheduledFrames - 1
    /\ WriteText(interceptedText \o pendingTextUpdate)
    /\ pendingTextUpdate' = <<>>
    /\ textUpdateScheduled' = FALSE
    /\ UNCHANGED <<blockingEnabled, capsLock, inputLanguage, interceptedKeys, latestKey,
                   lastProcessedSeqNum, fetchingKeys, hookKeys, hookNextSeq, pushChan,
                   pulls, clearReq>>
    /\ UNCHANGED <<ttsVars, hkVars, listenVars, uiVars, toastVars>>

\* fetchKeys up to its await: the guard, the flag, the request with afterSeqNum
\* (-1 stands for null)
FetchKeysStart ==
    /\ ~fetchingKeys
    /\ Len(pulls) < MaxPulls
    /\ fetchingKeys' = TRUE
    /\ pulls' = Append(pulls, [afterSeq |-> IF lastProcessedSeqNum >= 0
                                            THEN lastProcessedSeqNum ELSE -1,
                               answered |-> FALSE, keys |-> <<>>])
    /\ UNCHANGED <<blockingEnabled, capsLock, inputLanguage, interceptedKeys, latestKey,
                   lastProcessedSeqNum, pendingTextUpdate, textUpdateScheduled, scheduledFrames,
                   hookKeys, hookNextSeq, pushChan, clearReq>>
    /\ UNCHANGED <<textVars, ttsVars, hkVars, listenVars, uiVars, toastVars>>

\* the keys of the hook's buffer after sequence number afterSeq
KeysAfter(buffer, afterSeq) ==
    SelectSeq(buffer, LAMBDA k : k.seq_num > afterSeq)

\* get_intercepted_keys answered by the hook: the keys after afterSeqNum, in any order
HookAnswerPull(i) ==
    /\ ~pulls[i].answered
    /\ \E ks \in Orderings(KeysAfter(hookKeys, pulls[i].afterSeq)) :
          pulls' = [pulls EXCEPT ![i] = [@ EXCEPT !.answered = TRUE, !.keys = ks]]
    /\ UNCHANGED <<blockingEnabled, capsLock, inputLanguage, interceptedKeys, latestKey,
                   lastProcessedSeqNum, fetchingKeys, pendingTextUpdate,
                   textUpdateScheduled, scheduledFrames, hookKeys, hookNextSeq, pushChan, clearReq>>
    /\ UNCHANGED <<textVars, ttsVars, hkVars, listenVars, uiVars, toastVars>>

\* the watermark fetchKeys keeps after a batch
PullWatermark(last, sortedKeys) == MaxSeq(sortedKeys)

\* the keys of a sorted batch that fetchKeys applies to the text
PullApplied(last, sortedKeys) == sortedKeys

\* fetchKeys after its await, the response received (try body and finally)
FetchKeysDone(i) ==
    /\ pulls[i].answered
    /\ pulls' = RemoveAt(pulls, i)
    /\ fetchingKeys' = FALSE
    /\ IF blockingEnabled /\ Len(pulls[i].keys) > 0
       THEN LET sortedKeys == SortBySeq(pulls[i].keys)
                st == ProcessAll(TextState, PullApplied(lastProcessedSeqNum, sortedKeys),
                                 inputLanguage, capsLock)
            IN  /\ lastProcessedSeqNum' = PullWatermark(lastProcessedSeqNum, sortedKeys)
                /\ WriteText(st.text)
                /\ pendingTextUpdate' = st.pending
                /\ scheduleTextUpdate
       ELSE UNCHANGED <<lastProcessedSeqNum, pendingTextUpdate, textUpdateScheduled, scheduledFrames,
                        textVars>>
    /\ UNCHANGED <<blockingEnabled, capsLock, inputLanguage, interceptedKeys, latestKey,
                   hookKeys, hookNextSeq, pushChan, clearReq>>
    /\ UNCHANGED <<ttsVars, hkVars, listenVars, uiVars, toastVars>>

\* a fetchKeys whose rejected request leaves the flag set (no finally)
FetchKeysFailedStuck(i) ==
    /\ ~pulls[i].answered
    /\ pulls' = RemoveAt(pulls, i)
    /\ UNCHANGED <<blockingEnabled, capsLock, inputLanguage, interceptedKeys, latestKey,
                   lastProcessedSeqNum, fetchingKeys, pendingTextUpdate,
                   textUpdateScheduled, scheduledFrames, hookKeys, hookNextSeq,
                   pushChan, clearReq>>
    /\ UNCHANGED <<textVars, ttsVars, hkVars, listenVars, uiVars, toastVars>>

\* fetchKeys after its await, the request rejected (catch and finally)
FetchKeysFailed(i) ==
    /\ ~pulls[i].answered
    /\ pulls' = RemoveAt(pulls, i)
    /\ fetchingKeys' = FALSE
    /\ UNCHANGED <<blockingEnabled, capsLock, inputLanguage, interceptedKeys, latestKey,
                   lastProcessedSeqNum, pendingTextUpdate, textUpdateScheduled, scheduledFrames,
                   hookKeys, hookNextSeq, pushChan, clearReq>>
    /\ UNCHANGED <<textVars, ttsVars, hkVars, listenVars, uiVars, toastVars>>

\* clearKeys up to its await: clear_keys is sent
ClearKeysStart ==
    /\ clearReq = "none"
    /\ clearReq' = "sent"
    /\ UNCHANGED <<blockingEnabled, capsLock, inputLanguage, interceptedKeys, latestKey,
                   lastProcessedSeqNum, fetchingKeys, pendingTextUpdate,
                   textUpdateScheduled, scheduledFrames, hookKeys, hookNextSeq, pushChan, pulls>>
    /\ UNCHANGED <<textVars, ttsVars, hkVars, listenVars, uiVars, toastVars>>

\* clear_keys handled by the hook: its buffer is emptied
HookClearKeys ==
    /\ clearReq = "sent"
    /\ clearReq' = "ok"
    /\ hookKeys' = <<>>
    /\ UNCHANGED <<blockingEnabled, capsLock, inputLanguage, interceptedKeys, latestKey,
                   lastProcessedSeqNum, fetchingKeys, pendingTextUpdate,
                   textUpdateScheduled, scheduledFrames, hookNextSeq, pushChan, pulls>>
    /\ UNCHANGED <<textVars, ttsVars, hkVars, listenVars, uiVars, toastVars>>

\* clearKeys after its await, the command succeeded
ClearKeysDone ==
    /\ clearReq = "ok"
    /\ clearReq' = "none"
    /\ interceptedKeys' = <<>>
    /\ latestKey' = None
    /\ WriteText(<<>>)
    /\ lastProcessedSeqNum' = -1
    /\ fetchingKeys' = FALSE
    /\ UNCHANGED <<blockingEnabled, capsLock, inputLanguage, pendingTextUpdate,
                   textUpdateScheduled, scheduledFrames, hookKeys, hookNextSeq, pushChan, pulls>>
    /\ UNCHANGED <<ttsVars, hkVars, listenVars, uiVars, toastVars>>

\* clearKeys after its await, the command rejected (catch)
ClearKeysFailed ==
    /\ clearReq = "sent"
    /\ clearReq' = "none"
    /\ UNCHANGED <<blockingEnabled, capsLock, inputLanguage, interceptedKeys, latestKey,
                   lastProcessedSeqNum, fetchingKeys, pendingTextUpdate,
                   textUpdateScheduled, scheduledFrames, hookKeys, hookNextSeq, pushChan, pulls>>
    /\ UNCHANGED <<textVars, ttsVars, hkVars, listenVars, uiVars, toastVars>>

\* listen('caps_lock_changed')
CapsLockChanged(enabled) ==
    /\ capsLock # enabled
    /\ capsLock' = enabled
    /\ UNCHANGED <<blockingEnabled, inputLanguage, interceptedKeys, latestKey,
                   lastProcessedSeqNum, fetchingKeys, pendingTextUpdate,
                   textUpdateScheduled, scheduledFrames, hookKeys, hookNextSeq,
                   pushChan, pulls, clearReq>>
    /\ UNCHANGED <<textVars, ttsVars, hkVars, listenVars, uiVars, toastVars>>

\* listen('input_language_changed')
InputLanguageChanged(lang) ==
    /\ inputLanguage # lang
    /\ inputLanguage' = lang
    /\ UNCHANGED <<blockingEnabled, capsLock, interceptedKeys, latestKey,
                   lastProcessedSeqNum, fetchingKeys, pendingTextUpdate,
                   textUpdateScheduled, scheduledFrames, hookKeys, hookNextSeq,
                   pushChan, pulls, clearReq>>
    /\ UNCHANGED <<textVars, ttsVars, hkVars, listenVars, uiVars, toastVars>>

\* listen('blocking_changed'); in overlay_call mode applyWindowBehavior returns at
\* once, and the model keeps the key pipeline in that mode
BlockingChanged(enabled) ==
    /\ hotkeyMode = "overlay_call"
    /\ blockingEnabled # enabled
    /\ blockingEnabled' = enabled
    /\ UNCHANGED <<capsLock, inputLanguage, interceptedKeys, latestKey,
                   lastProcessedSeqNum, fetchingKeys, pendingTextUpdate,
                   textUpdateScheduled, scheduledFrames, hookKeys, hookNextSeq, pushChan, pulls, clearReq>>
    /\ UNCHANGED <<textVars, ttsVars, hkVars, listenVars, uiVars, toastVars>>

----------------------------------------------------------------------------
(* TTS queue and history reconciler *)

\* the text of the n-th utterance submitted; the texts are distinct, so that the
\* utterance behind a history entry stays recognisable
UtterChars == <<"a", "b", "c", "d">>
Utterance(n) == <<UtterChars[n]>>

\* the timestamp the backend gives a message it accepts, taken from its own
\* clock, which is ahead of the timestamp the store minted
ServerTimestamp == (now \div 1000) + 1

\* the durable id the backend gives the n-th enqueue request
DurableId(n) == <<"id", n>>

\* index of the first element of h that satisfies Test, 0 when there is none
\* (Array.prototype.find / findIndex)
FindFirst(h, Test(_)) ==
    IF \E i \in DOMAIN h : Test(h[i])
    THEN CHOOSE i \in DOMAIN h : Test(h[i]) /\ \A j \in 1..(i - 1) : ~Test(h[j])
    ELSE 0

\* findMessage falling back to any queued or playing entry, provisional or not
\* (findMessage without the startsWith test)
FallbackAnyId(m) == m.status \in {"queued", "playing"}

\* the entries findMessage falls back to when no entry has the pushed id
FallbackCandidate(m) ==
    IsTemp(m.id) /\ m.status \in {"queued", "playing"}

\* findMessage falling back to the last candidate of the list, the oldest one
findMessageOldest(h, id) ==
    LET exact == FindFirst(h, LAMBDA m : m.id = id) IN
    IF exact # 0 THEN exact
    ELSE IF \E i \in DOMAIN h : FallbackCandidate(h[i])
    THEN CHOOSE i \in DOMAIN h :
            FallbackCandidate(h[i]) /\ \A j \in (i + 1)..Len(h) : ~FallbackCandidate(h[j])
    ELSE 0

\* findMessage(id): the index of the entry the event is applied to, 0 for null
findMessage(h, id) ==
    LET exact == FindFirst(h, LAMBDA m : m.id = id) IN
    IF exact # 0 THEN exact
    ELSE FindFirst(h, FallbackCandidate)

\* a handler that gives an event nobody matches to the newest entry
ApplyToNewest(h, id, status) ==
    LET i == findMessage(h, id) IN
    IF h = <<>> THEN h
    ELSE IF i = 0 THEN [h EXCEPT ![1] = [@ EXCEPT !.id = id, !.status = status]]
    ELSE [h EXCEPT ![i] = [@ EXCEPT !.id = id, !.status = status]]

\* a tts:* handler on the history: findMessage (which adopts the id on the
\* fallback entry), then msg.status = status
ApplyTtsEvent(h, id, status) ==
    LET i == findMessage(h, id) IN
    IF i = 0 THEN h
    ELSE [h EXCEPT ![i] = [@ EXCEPT !.id = id, !.status = status]]

\* the status each pushed event sets
EventStatus ==
    ("tts:started" :> "playing") @@ ("tts:completed" :> "completed") @@
    ("tts:failed" :> "completed") @@ ("tts:cancelled" :> "completed")

\* the error payloads of tts:failed
TtsErrors == {"no voice", "provider error"}

\* typeof error === 'string' ? error : String(error), for the string payloads
ErrorText(error) == error

\* a notification that says only that there was an error
GenericErrorToast(message) == [show |-> TRUE, message |-> "error", type |-> "error"]

\* showToast(message, 'error')
ErrorToast(message) == [show |-> TRUE, message |-> message, type |-> "error"]

\* the default of showToast's duration parameter, and the duration the main
\* window passes to the Toast component
DefaultToastMs == 5000
ToastDurationProp == 5000

\* no timeout pending in the Toast component
NoTimer == -1

\* the Toast component's watcher of props.show, run when show has changed
ToastWatch(show) ==
    IF show
    THEN /\ visible' = TRUE
         /\ hideTimer' = IF ToastDurationProp > 0 THEN now + ToastDurationProp ELSE hideTimer
    ELSE /\ visible' = FALSE
         /\ UNCHANGED hideTimer

\* showToast(message, type, duration), t the notification it stores; the
\* component's watcher runs when toast.show has changed
ShowToast(t, duration) ==
    /\ toast' = t
    /\ toastTimers' = IF duration > 0 THEN toastTimers \cup {now + duration}
                      ELSE toastTimers
    /\ toastShown' = [at |-> now, duration |-> duration, message |-> t.message,
                      type |-> t.type]
    /\ hiddenBy' = "none"
    /\ IF toast.show THEN UNCHANGED <<visible, hideTimer>> ELSE ToastWatch(TRUE)

\* hideToast()
HideToast ==
    /\ toast' = [toast EXCEPT !.show = FALSE]
    /\ hiddenBy' = IF toast.show THEN "hideToast" ELSE hiddenBy

\* a direct call of speakTextWithHistory with the next utterance
Speak ==
    /\ SpeakTextWithHistory(Utterance(tempCount + 1))
    /\ UNCHANGED <<interceptedText, isProcessingSpeech>>
    /\ UNCHANGED <<keyVars, ttsVars, hkVars, listenVars, uiVars, toastVars>>

\* enqueue_tts accepted by the backend: the utterance enters the server history
\* (newest first) as Queued and the answer carries its durable id
SrvAcceptEnqueue(r) ==
    /\ r \in enqueues /\ r.st = "sent"
    /\ enqueues' = (enqueues \ {r}) \cup {[r EXCEPT !.st = "ok"]}
    /\ srvHistory' = <<[id |-> DurableId(r.n), text |-> r.text,
                        timestamp |-> ServerTimestamp, status |-> "queued",
                        locked |-> FALSE]>> \o srvHistory
    /\ UNCHANGED <<interceptedText, isProcessingSpeech, ttsHistory, tempCount>>
    /\ UNCHANGED <<isPlaying, continuousPlay, toast, srvEvents, fetches, cmds>>
    /\ UNCHANGED <<keyVars, hkVars, listenVars, uiVars, toastVars>>

\* enqueue_tts rejected by the backend
SrvRejectEnqueue(r) ==
    /\ r \in enqueues /\ r.st = "sent"
    /\ enqueues' = (enqueues \ {r}) \cup {[r EXCEPT !.st = "err"]}
    /\ UNCHANGED <<interceptedText, isProcessingSpeech, ttsHistory, tempCount>>
    /\ UNCHANGED <<keyVars, ttsVars, hkVars, listenVars, uiVars, toastVars>>

\* an acknowledgment that takes the entry out and puts it back in front
AckMovingToFront(h, tempId, realId) ==
    LET msgIndex == FindFirst(h, LAMBDA m : m.id = tempId) IN
    IF msgIndex # 0
    THEN <<[h[msgIndex] EXCEPT !.id = realId]>> \o RemoveAt(h, msgIndex)
    ELSE h

\* the .then of speakTextWithHistory on the history: the entry that still has
\* the provisional id gets the real id
AckHistory(h, tempId, realId) ==
    LET msgIndex == FindFirst(h, LAMBDA m : m.id = tempId) IN
    IF msgIndex # 0 THEN [h EXCEPT ![msgIndex].id = realId] ELSE h

\* the .catch of speakTextWithHistory on the history
RollbackHistory(h, tempId) ==
    SelectSeq(h, LAMBDA m : m.id # tempId)

\* speakTextWithHistory: .then((realId) => ...)
EnqueueThen(r) ==
    /\ r \in enqueues /\ r.st = "ok"
    /\ enqueues' = enqueues \ {r}
    /\ ttsHistory' = AckHistory(ttsHistory, <<"temp", r.n>>, DurableId(r.n))
    /\ UNCHANGED <<interceptedText, isProcessingSpeech, tempCount>>
    /\ UNCHANGED <<keyVars, ttsVars, hkVars, listenVars, uiVars, toastVars>>

\* speakTextWithHistory: .catch((error) => ...)
EnqueueCatch(r) ==
    /\ r \in enqueues /\ r.st = "err"
    /\ enqueues' = enqueues \ {r}
    /\ ttsHistory' = RollbackHistory(ttsHistory, <<"temp", r.n>>)
    /\ ShowToast(ErrorToast("enqueue rejected"), DefaultToastMs)
    /\ UNCHANGED <<interceptedText, isProcessingSpeech, tempCount>>
    /\ UNCHANGED <<isPlaying, continuousPlay, srvHistory, srvEvents, fetches, cmds>>
    /\ UNCHANGED <<keyVars, hkVars, listenVars, uiVars>>

\* index of the oldest Queued message of the server history, 0 when there is none
OldestQueued(h) ==
    IF \E i \in DOMAIN h : h[i].status = "queued"
    THEN CHOOSE i \in DOMAIN h :
            h[i].status = "queued" /\ \A j \in (i + 1)..Len(h) : h[j].status # "queued"
    ELSE 0

\* the backend starts speaking the oldest queued utterance (one audio channel)
\* and pushes tts:started
SrvStart ==
    /\ \A i \in DOMAIN srvHistory : srvHistory[i].status # "playing"
    /\ OldestQueued(srvHistory) # 0
    /\ LET i == OldestQueued(srvHistory) IN
       /\ srvHistory' = [srvHistory EXCEPT ![i].status = "playing"]
       /\ srvEvents' = srvEvents \o Copies(ttsListeners, [type |-> "tts:started", id |-> srvHistory[i].id])
    /\ UNCHANGED <<isPlaying, continuousPlay, toast, fetches, cmds>>
    /\ UNCHANGED <<keyVars, textVars, hkVars, listenVars, uiVars, toastVars>>

\* the backend ends the utterance it is speaking and pushes tts:completed or
\* tts:failed
SrvFinish(type) ==
    /\ \E i \in DOMAIN srvHistory :
          /\ srvHistory[i].status = "playing"
          /\ srvHistory' = [srvHistory EXCEPT ![i].status = "completed"]
          /\ IF type = "tts:failed"
             THEN \E err \in TtsErrors :
                     srvEvents' = srvEvents \o Copies(ttsListeners, [type |-> type, id |-> srvHistory[i].id,
                                                     error |-> err])
             ELSE srvEvents' = srvEvents \o Copies(ttsListeners, [type |-> type, id |-> srvHistory[i].id])
    /\ UNCHANGED <<isPlaying, continuousPlay, toast, fetches, cmds>>
    /\ UNCHANGED <<keyVars, textVars, hkVars, listenVars, uiVars, toastVars>>

\* listen('tts:started' | 'tts:completed' | 'tts:failed' | 'tts:cancelled'): the
\* oldest pushed event is delivered
TtsEvent ==
    /\ srvEvents # <<>>
    /\ LET e == Head(srvEvents) IN
       /\ srvEvents' = Tail(srvEvents)
       /\ ttsHistory' = ApplyTtsEvent(ttsHistory, e.id, EventStatus[e.type])
       /\ IF e.type = "tts:failed"
          THEN ShowToast(ErrorToast(ErrorText(e.error)), DefaultToastMs)
          ELSE UNCHANGED <<toast, toastVars>>
    /\ UNCHANGED <<interceptedText, isProcessingSpeech, tempCount, enqueues>>
    /\ UNCHANGED <<isPlaying, continuousPlay, srvHistory, fetches, cmds>>
    /\ UNCHANGED <<keyVars, hkVars, listenVars, uiVars>>

\* a merge that keeps every local entry the server does not list, durable ids
\* included (fetchTtsHistory without the startsWith test)
MergeKeepingLocal(local, server) ==
    LET merged(sm) ==
            LET l == FindFirst(local, LAMBDA m : m.id = sm.id) IN
            IF l # 0 THEN [sm EXCEPT !.status = local[l].status] ELSE sm
        onServer(id) == \E i \in DOMAIN server : server[i].id = id
    IN  [i \in DOMAIN server |-> merged(server[i])]
        \o SelectSeq(local, LAMBDA m : ~onServer(m.id))

\* a merge that takes every server message as it is, status included
MergeTakingServer(local, server) ==
    LET onServer(id) == \E i \in DOMAIN server : server[i].id = id
    IN  server \o SelectSeq(local, LAMBDA m : ~onServer(m.id) /\ IsTemp(m.id))

\* the merge of fetchTtsHistory: the server's messages with the local status
\* where the id is known locally, then the local provisional entries the server
\* does not list
MergeHistory(local, server) ==
    LET merged(sm) ==
            LET l == FindFirst(local, LAMBDA m : m.id = sm.id) IN
            IF l # 0 THEN [sm EXCEPT !.status = local[l].status] ELSE sm
        onServer(id) == \E i \in DOMAIN server : server[i].id = id
    IN  [i \in DOMAIN server |-> merged(server[i])]
        \o SelectSeq(local, LAMBDA m : ~onServer(m.id) /\ IsTemp(m.id))

\* fetchTtsHistory up to its await; cause is "mount" for the call of the history
\* panel, or the command whose success is followed by this refresh
FetchTtsHistoryStart(cause) ==
    /\ Len(fetches) < MaxFetch
    /\ fetches' = Append(fetches, [answered |-> FALSE, list |-> <<>>, cause |-> cause])

\* the history panel is mounted (or remounted): fetchTtsHistory()
RefreshHistory ==
    /\ FetchTtsHistoryStart([kind |-> "mount"])
    /\ UNCHANGED <<isPlaying, continuousPlay, toast, srvHistory, srvEvents, cmds>>
    /\ UNCHANGED <<keyVars, textVars, hkVars, listenVars, uiVars, toastVars>>

\* get_tts_history answered by the backend with its history as it is now
SrvAnswerHistory(i) ==
    /\ ~fetches[i].answered
    /\ fetches' = [fetches EXCEPT ![i] = [@ EXCEPT !.answered = TRUE, !.list = srvHistory]]
    /\ UNCHANGED <<isPlaying, continuousPlay, toast, srvHistory, srvEvents, cmds>>
    /\ UNCHANGED <<keyVars, textVars, hkVars, listenVars, uiVars, toastVars>>

\* fetchTtsHistory after its await, the response received
FetchTtsHistoryDone(i) ==
    /\ fetches[i].answered
    /\ fetches' = RemoveAt(fetches, i)
    /\ ttsHistory' = MergeHistory(ttsHistory, fetches[i].list)
    /\ UNCHANGED <<interceptedText, isProcessingSpeech, tempCount, enqueues>>
    /\ UNCHANGED <<isPlaying, continuousPlay, toast, srvHistory, srvEvents, cmds>>
    /\ UNCHANGED <<keyVars, hkVars, listenVars, uiVars, toastVars>>

\* fetchTtsHistory after its await, the request rejected (catch)
FetchTtsHistoryFailed(i) ==
    /\ ~fetches[i].answered
    /\ fetches' = RemoveAt(fetches, i)
    /\ UNCHANGED <<isPlaying, continuousPlay, toast, srvHistory, srvEvents, cmds>>
    /\ UNCHANGED <<keyVars, textVars, hkVars, listenVars, uiVars, toastVars>>

\* the delete button of the history panel is enabled for this entry
DeleteEnabled(m) == ~(m.status = "playing" \/ m.locked)

CmdKinds == {"delete", "toggle_lock", "cancel"}

\* deleteTtsMessage / toggleTtsMessageLocked / cancelTtsMessage up to the await:
\* the command is sent for the id of a history entry
CmdStart(kind, id) ==
    /\ Len(cmds) < MaxCmds
    /\ Len(srvEvents) < MaxEvents
    /\ \E i \in DOMAIN ttsHistory :
          /\ ttsHistory[i].id = id
          /\ kind = "delete" => DeleteEnabled(ttsHistory[i])
    /\ cmds' = Append(cmds, [kind |-> kind, id |-> id, st |-> "sent"])
    /\ UNCHANGED <<isPlaying, continuousPlay, toast, srvHistory, srvEvents, fetches>>
    /\ UNCHANGED <<keyVars, textVars, hkVars, listenVars, uiVars, toastVars>>

\* the backend's policy: delete and cancel are rejected when the target is
\* locked or playing (and a command for an id it does not know is rejected)
SrvAccepts(kind, id) ==
    \E i \in DOMAIN srvHistory :
       /\ srvHistory[i].id = id
       /\ kind \in {"delete", "cancel"} =>
             ~(srvHistory[i].locked \/ srvHistory[i].status = "playing")

\* the backend handles a command: delete removes the message, toggle_lock flips
\* its flag, cancel takes it out of the queue and pushes tts:cancelled
SrvCommand(i) ==
    /\ cmds[i].st = "sent"
    /\ LET c == cmds[i]
           k == FindFirst(srvHistory, LAMBDA m : m.id = c.id)
       IN
       IF SrvAccepts(c.kind, c.id)
       THEN /\ cmds' = [cmds EXCEPT ![i].st = "ok"]
            /\ srvHistory' =
                 IF c.kind = "delete" THEN RemoveAt(srvHistory, k)
                 ELSE IF c.kind = "toggle_lock"
                   THEN [srvHistory EXCEPT ![k].locked = ~@]
                 ELSE [srvHistory EXCEPT ![k].status = "completed"]
            /\ srvEvents' =
                 IF c.kind = "cancel"
                 THEN srvEvents \o Copies(ttsListeners, [type |-> "tts:cancelled", id |-> c.id])
                 ELSE srvEvents
       ELSE /\ cmds' = [cmds EXCEPT ![i].st = "err"]
            /\ UNCHANGED <<srvHistory, srvEvents>>
    /\ UNCHANGED <<isPlaying, continuousPlay, toast, fetches>>
    /\ UNCHANGED <<keyVars, textVars, hkVars, listenVars, uiVars, toastVars>>

\* the command succeeded: await this.fetchTtsHistory()
CmdDone(i) ==
    /\ cmds[i].st = "ok"
    /\ cmds' = RemoveAt(cmds, i)
    /\ FetchTtsHistoryStart([kind |-> cmds[i].kind, id |-> cmds[i].id])
    /\ UNCHANGED <<isPlaying, continuousPlay, toast, srvHistory, srvEvents>>
    /\ UNCHANGED <<keyVars, textVars, hkVars, listenVars, uiVars, toastVars>>

\* the command was rejected (catch): nothing is refreshed
CmdFailed(i) ==
    /\ cmds[i].st = "err"
    /\ cmds' = RemoveAt(cmds, i)
    /\ UNCHANGED <<isPlaying, continuousPlay, toast, srvHistory, srvEvents, fetches>>
    /\ UNCHANGED <<keyVars, textVars, hkVars, listenVars, uiVars, toastVars>>

----------------------------------------------------------------------------
(* Overlay hotkey state machine *)

HOTKEY_DEBOUNCE_MS == 300

\* milliseconds between two readings of the clock in the model
TickMs == 100

HotkeyVarsRest == <<keyVars, textVars, ttsVars, uiVars, toastVars, listenVars>>

\* time passes
Tick ==
    /\ now < HOTKEY_DEBOUNCE_MS + MaxTicks * TickMs
    /\ now' = now + TickMs
    /\ UNCHANGED <<hotkeyMode, overlayPreviousWindowSaved, lastHotkeyCallTime, win,
                   handlers, hotkeyCalls, windowCmds, sessionSaves>>
    /\ UNCHANGED HotkeyVarsRest

\* handleWinEscHotkey without its debounce test
NeverDebounced(t, last) == FALSE

\* the debounce test of handleWinEscHotkey
Debounced(t, last) == t - last < HOTKEY_DEBOUNCE_MS

\* A hotkey trigger: Win+Esc seen by handleKeyDown (src "keydown") or
\* show_window_requested from the hook (src "hook"); both call handleWinEscHotkey
\* only in overlay_call mode.  This is handleWinEscHotkey up to its first await.
HotkeyTrigger(src) ==
    /\ Len(hotkeyCalls) < MaxTriggers
    /\ hotkeyMode = "overlay_call"
    /\ IF Debounced(now, lastHotkeyCallTime)
       THEN /\ hotkeyCalls' = Append(hotkeyCalls,
                                     [time |-> now, src |-> src, debounced |-> TRUE])
            /\ UNCHANGED <<lastHotkeyCallTime, handlers>>
       ELSE /\ hotkeyCalls' = Append(hotkeyCalls,
                                     [time |-> now, src |-> src, debounced |-> FALSE])
            /\ lastHotkeyCallTime' = now
            /\ handlers' = Append(handlers,
                                  [call |-> Len(hotkeyCalls) + 1, pc |-> "isFocused",
                                   isFocused |-> FALSE, isVisible |-> FALSE,
                                   isMinimized |-> FALSE])
    /\ UNCHANGED <<hotkeyMode, overlayPreviousWindowSaved, now, win, windowCmds,
                   sessionSaves>>
    /\ UNCHANGED HotkeyVarsRest

\* what a window command does to the window
WindowAfter(w, cmd) ==
    IF cmd = "show_window_on_top"
      THEN [minimized |-> FALSE, visible |-> TRUE, focused |-> TRUE]
    ELSE IF cmd = "send_to_background_and_restore_focus"
      THEN [w EXCEPT !.minimized = TRUE, !.focused = FALSE]
    ELSE IF cmd = "set_focus" THEN [w EXCEPT !.focused = TRUE]
    ELSE w

\* handler h sends a window command
Issue(h, cmd) ==
    /\ windowCmds' = Append(windowCmds, [cmd |-> cmd, call |-> handlers[h].call])
    /\ win' = WindowAfter(win, cmd)
    /\ sessionSaves' = IF cmd = "save_previous_window" THEN sessionSaves + 1
                       ELSE sessionSaves

\* the branch handleWinEscHotkey takes on the queried window state
HotkeyBranch(isMinimized, isVisible, isFocused) ==
    IF isMinimized \/ ~isVisible THEN "show"
    ELSE IF isFocused THEN "hide"
    ELSE "focus"

\* whether showWindowOverlay returns early on its own queries
OverlayReturnsEarly(isMinimized, isVisible, isFocused) ==
    ~(isMinimized \/ ~isVisible) /\ isFocused

\* whether showWindowOverlay snapshots the previous window
NeedsSave(saved) == ~saved

\* One step of a handleWinEscHotkey call in flight, from one await to the next:
\* the three window queries, the branch, and inside it showWindowOverlay,
\* hideWindowAndRestoreFocus or setFocus
HandlerStep(h) ==
    LET r == handlers[h]
        goto(pc) == handlers' = [handlers EXCEPT ![h].pc = pc]
        finish == handlers' = RemoveAt(handlers, h)
    IN
    /\ CASE r.pc = "isFocused" ->
              /\ handlers' = [handlers EXCEPT ![h].pc = "isVisible",
                                              ![h].isFocused = win.focused]
              /\ UNCHANGED <<win, windowCmds, sessionSaves, overlayPreviousWindowSaved>>
         [] r.pc = "isVisible" ->
              /\ handlers' = [handlers EXCEPT ![h].pc = "isMinimized",
                                              ![h].isVisible = win.visible]
              /\ UNCHANGED <<win, windowCmds, sessionSaves, overlayPreviousWindowSaved>>
         [] r.pc = "isMinimized" ->
              LET b == HotkeyBranch(win.minimized, r.isVisible, r.isFocused) IN
              /\ UNCHANGED overlayPreviousWindowSaved
              /\ IF b = "show"
                 THEN /\ goto("overlay")
                      /\ UNCHANGED <<win, windowCmds, sessionSaves>>
                 ELSE /\ goto("wait")
                      /\ Issue(h, IF b = "hide"
                                  THEN "send_to_background_and_restore_focus"
                                  ELSE "set_focus")
         [] r.pc = "overlay" ->
              \* showWindowOverlay: its own queries, then the save or the show
              IF OverlayReturnsEarly(win.minimized, win.visible, win.focused)
              THEN /\ finish
                   /\ UNCHANGED <<win, windowCmds, sessionSaves, overlayPreviousWindowSaved>>
              ELSE IF NeedsSave(overlayPreviousWindowSaved)
              THEN /\ goto("saved")
                   /\ Issue(h, "save_previous_window")
                   /\ UNCHANGED overlayPreviousWindowSaved
              ELSE /\ goto("wait")
                   /\ Issue(h, "show_window_on_top")
                   /\ UNCHANGED overlayPreviousWindowSaved
         [] r.pc = "saved" ->
              /\ overlayPreviousWindowSaved' = TRUE
              /\ goto("wait")
              /\ Issue(h, "show_window_on_top")
         [] r.pc = "wait" ->
              /\ finish
              /\ UNCHANGED <<win, windowCmds, sessionSaves, overlayPreviousWindowSaved>>
    /\ UNCHANGED <<hotkeyMode, lastHotkeyCallTime, now, hotkeyCalls>>
    /\ UNCHANGED HotkeyVarsRest

\* the user moves the focus to another window, or back
WinFocusChanged(focused) ==
    /\ win.focused # focused
    /\ win.visible /\ ~win.minimized
    /\ win' = [win EXCEPT !.focused = focused]
    /\ UNCHANGED <<hotkeyMode, overlayPreviousWindowSaved, lastHotkeyCallTime, now,
                   handlers, hotkeyCalls, windowCmds, sessionSaves>>
    /\ UNCHANGED HotkeyVarsRest

HotkeyModes == {"background_blocking", "overlay_call"}

\* setHotkeyMode(mode) after its await, the command succeeded
SetHotkeyModeDone(mode) ==
    /\ hotkeyMode # mode
    /\ hotkeyMode' = mode
    /\ overlayPreviousWindowSaved' =
         IF mode = "background_blocking" THEN FALSE ELSE overlayPreviousWindowSaved
    /\ sessionSaves' = IF mode = "background_blocking" THEN 0 ELSE sessionSaves
    /\ UNCHANGED <<lastHotkeyCallTime, now, win, handlers, hotkeyCalls, windowCmds>>
    /\ UNCHANGED HotkeyVarsRest

----------------------------------------------------------------------------
(* Initial states *)

\* the store after construction (keyboard.ts 50-66), nothing intercepted yet;
\* blockingEnabled is as declared, or as fetchStatus found it during initialize()
InitKeysWith(blocking) ==
    /\ blockingEnabled = blocking
    /\ capsLock = FALSE
    /\ inputLanguage = "en"
    /\ interceptedKeys = <<>>
    /\ latestKey = None
    /\ lastProcessedSeqNum = -1
    /\ fetchingKeys = FALSE
    /\ pendingTextUpdate = <<>>
    /\ textUpdateScheduled = FALSE
    /\ scheduledFrames = 0
    /\ hookKeys = <<>>
    /\ hookNextSeq = 0
    /\ pushChan = <<>>
    /\ pulls = <<>>
    /\ clearReq = "none"

InitKeys == InitKeysWith(FALSE)

InitText ==
    /\ interceptedText = <<>>
    /\ isProcessingSpeech = FALSE
    /\ ttsHistory = <<>>
    /\ tempCount = 0
    /\ enqueues = {}

InitTts ==
    /\ isPlaying = FALSE
    /\ continuousPlay = FALSE
    /\ toast = [show |-> FALSE, message |-> "", type |-> "error"]
    /\ srvHistory = <<>>
    /\ srvEvents = <<>>
    /\ fetches = <<>>
    /\ cmds = <<>>

InitHotkey ==
    /\ hotkeyMode = "overlay_call"
    /\ overlayPreviousWindowSaved = FALSE
    /\ lastHotkeyCallTime = 0
    /\ now = HOTKEY_DEBOUNCE_MS
    /\ win = [minimized |-> FALSE, visible |-> TRUE, focused |-> TRUE]
    /\ handlers = <<>>
    /\ hotkeyCalls = <<>>
    /\ windowCmds = <<>>
    /\ sessionSaves = 0

----------------------------------------------------------------------------
(* The key pipeline: push and pull delivery, batching, blocking *)

InitUi == inputValue = [n |-> 0, text |-> <<>>] /\ playCalls = 0

\* no notification yet: no timeout pending, the Toast component hidden
InitToast ==
    /\ toastTimers = {}
    /\ visible = FALSE
    /\ hideTimer = NoTimer
    /\ toastShown = [at |-> 0, duration |-> 0, message |-> "", type |-> "error"]
    /\ hiddenBy = "none"

\* setupTtsEventListeners without its guard
setupTtsUnguarded ==
    /\ ttsHistoryInitialized' = TRUE
    /\ ttsListeners' = ttsListeners + 1

\* setupTtsEventListeners: returns when ttsHistoryInitialized is set, otherwise
\* sets it and calls listen once for each TTS event type
setupTtsEventListeners ==
    IF ttsHistoryInitialized
    THEN UNCHANGED <<ttsHistoryInitialized, ttsListeners>>
    ELSE /\ ttsHistoryInitialized' = TRUE
         /\ ttsListeners' = ttsListeners + 1

\* setupStateEventListeners: the same with stateEventListenersInitialized and the
\* state event types, key_intercepted among them
setupStateEventListeners ==
    IF stateEventListenersInitialized
    THEN UNCHANGED <<stateEventListenersInitialized, stateListeners>>
    ELSE /\ stateEventListenersInitialized' = TRUE
         /\ stateListeners' = stateListeners + 1

\* initialize() after its awaits: both setup functions are called
InitializeSetup ==
    /\ setupTtsEventListeners
    /\ setupStateEventListeners
    /\ UNCHANGED <<keyVars, textVars, ttsVars, hkVars, uiVars, toastVars>>

\* TtsHistory's onMounted after fetchTtsHistory: setupTtsEventListeners()
TtsHistoryMounted ==
    /\ setupTtsEventListeners
    /\ UNCHANGED <<stateEventListenersInitialized, stateListeners>>
    /\ UNCHANGED <<keyVars, textVars, ttsVars, hkVars, uiVars, toastVars>>

\* the store as created: no listener registered
InitNoListeners ==
    /\ ttsHistoryInitialized = FALSE
    /\ stateEventListenersInitialized = FALSE
    /\ ttsListeners = 0
    /\ stateListeners = 0

\* initialize() has run: both groups of listeners are registered
InitListeners ==
    /\ ttsHistoryInitialized = TRUE
    /\ stateEventListenersInitialized = TRUE
    /\ ttsListeners = 1
    /\ stateListeners = 1

Init == InitKeys /\ InitText /\ InitTts /\ InitHotkey /\ InitUi /\ InitToast /\ InitListeners

Next ==
    \/ \E name \in KeyNames : HookKey(name)
    \/ KeyIntercepted
    \/ FlushTextUpdate
    \/ FetchKeysStart
    \/ \E i \in DOMAIN pulls : HookAnswerPull(i)
    \/ \E i \in DOMAIN pulls : FetchKeysDone(i)
    \/ \E i \in DOMAIN pulls : FetchKeysFailed(i)
    \/ \E b \in BOOLEAN : BlockingChanged(b)

Spec == Init /\ [][Next]_vars

\* C3: a key event is applied only if its seq_num is strictly greater than the
\* watermark held just before it is handled: a pushed event with seq_num at or below
\* the watermark, and a pull batch holding such an event, change neither
\* interceptedText nor pendingTextUpdate.
C3_AppliedOnlyAboveWatermark ==
    [][ LET pushed == /\ pushChan # <<>>
                      /\ pushChan' = Tail(pushChan)
                      /\ Head(pushChan).seq_num <= lastProcessedSeqNum
            pulled == \E i \in DOMAIN pulls :
                         /\ pulls[i].answered
                         /\ pulls' = RemoveAt(pulls, i)
                         /\ \A k \in DOMAIN pulls[i].keys :
                               pulls[i].keys[k].seq_num <= lastProcessedSeqNum
        IN  (pushed \/ pulled) =>
               /\ interceptedText' = interceptedText
               /\ pendingTextUpdate' = pendingTextUpdate ]_vars

----------------------------------------------------------------------------
(* Delivery with blocking enabled throughout: every key is pushed, and pulls race
   with the pushes *)

InitDelivery ==
    InitKeysWith(TRUE) /\ InitText /\ InitTts /\ InitHotkey /\ InitUi /\ InitToast
    /\ InitListeners

NextDelivery ==
    \/ \E name \in KeyNames : HookKey(name)
    \/ KeyIntercepted
    \/ FlushTextUpdate
    \/ FetchKeysStart
    \/ \E i \in DOMAIN pulls : HookAnswerPull(i)
    \/ \E i \in DOMAIN pulls : FetchKeysDone(i)
    \/ \E i \in DOMAIN pulls : FetchKeysFailed(i)

SpecDelivery == InitDelivery /\ [][NextDelivery]_vars

\* every event delivered and every flush run
Quiescent ==
    /\ pushChan = <<>>
    /\ pulls = <<>>
    /\ ~textUpdateScheduled

\* the texts obtained by applying the keys once each in the given order, a flush
\* of the pending buffer running or not before each key and one at the end
RECURSIVE TextsOnceInOrder(_, _)
TextsOnceInOrder(st, keys) ==
    IF keys = <<>> THEN {st.text \o st.pending}
    ELSE LET flushed == [text |-> st.text \o st.pending, pending |-> <<>>]
             apply(x) == processInterceptedKey(x, keys[1].key_name, inputLanguage, capsLock)
         IN  TextsOnceInOrder(apply(st), Tail(keys))
                \cup TextsOnceInOrder(apply(flushed), Tail(keys))

\* C1: for any interleaving of push and pull delivery of the same key events while
\* blocking is enabled, the final text (after all pending flushes) is the text
\* obtained by applying each event exactly once in ascending seq_num order.
C1_FinalTextOnceInOrder ==
    Quiescent =>
       interceptedText \in TextsOnceInOrder([text |-> <<>>, pending |-> <<>>],
                                            SortBySeq(hookKeys))

----------------------------------------------------------------------------
(* The key pipeline with clearKeys *)

ClearKeyNames == {"A"}

NextClear ==
    \/ \E name \in ClearKeyNames : HookKey(name)
    \/ KeyIntercepted
    \/ FlushTextUpdate
    \/ FetchKeysStart
    \/ \E i \in DOMAIN pulls : HookAnswerPull(i)
    \/ \E i \in DOMAIN pulls : FetchKeysDone(i)
    \/ \E i \in DOMAIN pulls : FetchKeysFailed(i)
    \/ ClearKeysStart
    \/ HookClearKeys
    \/ ClearKeysDone
    \/ ClearKeysFailed
    \/ \E b \in BOOLEAN : BlockingChanged(b)

SpecClear == Init /\ [][NextClear]_vars

\* a registered requestAnimationFrame callback is run by the browser
SpecClearFair == SpecClear /\ WF_vars(FlushTextUpdate)

\* the step in which clearKeys resets the store, which ends a session
ClearResets == clearReq = "ok" /\ clearReq' = "none"

\* C2: the watermark lastProcessedSeqNum never decreases during a session: no step
\* of fetchKeys, of the key_intercepted handler or of any other action but the
\* reset of clearKeys moves it to a smaller value.
C2_WatermarkNeverDecreases ==
    [][ ClearResets \/ lastProcessedSeqNum' >= lastProcessedSeqNum ]_vars

----------------------------------------------------------------------------
(* The TTS queue and history: enqueues, acknowledgments and rejections, pushed
   status events and refreshes *)

NextTts ==
    \/ Speak
    \/ \E r \in enqueues : SrvAcceptEnqueue(r)
    \/ \E r \in enqueues : SrvRejectEnqueue(r)
    \/ \E r \in enqueues : EnqueueThen(r)
    \/ \E r \in enqueues : EnqueueCatch(r)
    \/ SrvStart
    \/ \E type \in {"tts:completed", "tts:failed"} : SrvFinish(type)
    \/ TtsEvent
    \/ RefreshHistory
    \/ \E i \in DOMAIN fetches : SrvAnswerHistory(i)
    \/ \E i \in DOMAIN fetches : FetchTtsHistoryDone(i)
    \/ \E i \in DOMAIN fetches : FetchTtsHistoryFailed(i)

SpecTts == Init /\ [][NextTts]_vars

\* C4: in every reachable state of ttsHistory at most one message has status
\* 'playing'.
C4_AtMostOnePlaying ==
    \A i, j \in DOMAIN ttsHistory :
       (ttsHistory[i].status = "playing" /\ ttsHistory[j].status = "playing") => i = j

\* a step of an in-place handler of the history: an enqueue acknowledgment or a
\* pushed status event
InPlaceStep ==
    \/ \E r \in enqueues : r.st = "ok" /\ enqueues' = enqueues \ {r}
    \/ srvEvents # <<>> /\ srvEvents' = Tail(srvEvents)

\* C5: the id of a history entry changes at most once, from a 'temp-' id to a
\* durable id (by the enqueue acknowledgment or by id adoption in findMessage):
\* every id change made by these handlers is from a provisional to a durable
\* id, and an entry whose id is durable keeps it.
C5_IdReplacedAtMostOnce ==
    [][ InPlaceStep =>
          /\ Len(ttsHistory') = Len(ttsHistory)
          /\ \A i \in DOMAIN ttsHistory :
                ttsHistory'[i].id # ttsHistory[i].id =>
                   IsTemp(ttsHistory[i].id) /\ ~IsTemp(ttsHistory'[i].id) ]_vars

\* an entry made by a call whose acknowledgment is still outstanding has already
\* become durable by id adoption
C5_Witness ==
    \E r \in enqueues :
       /\ r.st = "ok"
       /\ \A i \in DOMAIN ttsHistory : ttsHistory[i].id # <<"temp", r.n>>
       /\ \E i \in DOMAIN ttsHistory :
             ~IsTemp(ttsHistory[i].id) /\ ttsHistory[i].text = r.text

\* C6: for one utterance the history never holds both its provisional entry and
\* a separate entry carrying its durable id.
C6_NoTempBesideDurable ==
    \A i, j \in DOMAIN ttsHistory :
       IsTemp(ttsHistory[i].id) => ttsHistory[j].id # DurableId(ttsHistory[i].id[2])

\* C8: a rejected enqueue removes the optimistic entry made by that call: the
\* catch handler leaves the history one entry shorter, without the entry of the
\* rejected utterance and without its provisional id, and shows an error
\* notification, whatever was interleaved between the call and the rejection.
C8_RejectedEnqueueRolledBack ==
    [][ \A r \in enqueues :
          (r.st = "err" /\ enqueues' = enqueues \ {r}) =>
             /\ Len(ttsHistory') = Len(ttsHistory) - 1
             /\ \A i \in DOMAIN ttsHistory' :
                   /\ ttsHistory'[i].id # <<"temp", r.n>>
                   /\ ttsHistory'[i].text # r.text
             /\ toast'.show /\ toast'.type = "error" ]_vars

----------------------------------------------------------------------------
(* The history commands: delete, lock and cancel, each followed by a refresh *)

\* the ids a command can be sent for: those of the entries shown
ShownIds == { ttsHistory[i].id : i \in DOMAIN ttsHistory }

\* utterances submitted while the history commands are explored
MaxCmdSpeak == 1

SpeakForCmd == tempCount < MaxCmdSpeak /\ Speak

NextCmd ==
    \/ SpeakForCmd
    \/ \E r \in enqueues : SrvAcceptEnqueue(r)
    \/ \E r \in enqueues : EnqueueThen(r)
    \/ SrvStart
    \/ SrvFinish("tts:completed")
    \/ TtsEvent
    \/ \E i \in DOMAIN fetches : SrvAnswerHistory(i)
    \/ \E i \in DOMAIN fetches : FetchTtsHistoryDone(i)
    \/ \E i \in DOMAIN fetches : FetchTtsHistoryFailed(i)
    \/ \E kind \in CmdKinds, id \in ShownIds : CmdStart(kind, id)
    \/ \E i \in DOMAIN cmds : SrvCommand(i)
    \/ \E i \in DOMAIN cmds : CmdDone(i)
    \/ \E i \in DOMAIN cmds : CmdFailed(i)

SpecCmd == Init /\ [][NextCmd]_vars

\* the backend holds the message with this id locked or playing
SrvLockedOrPlaying(id) ==
    \E k \in DOMAIN srvHistory :
       /\ srvHistory[k].id = id
       /\ srvHistory[k].locked \/ srvHistory[k].status = "playing"

\* C9: a delete or cancel of a message that is locked or playing is rejected and
\* leaves the history unchanged (no refresh follows the rejection), and no delete
\* is sent for an entry shown as locked or playing; after a
\* successful delete the message is gone from the history once the refresh that
\* follows it has been merged.
C9_DeleteCancelPolicy ==
    [][ /\ \A i \in DOMAIN cmds :
             /\ ( /\ cmds[i].st = "sent"
                  /\ cmds[i].kind \in {"delete", "cancel"}
                  /\ SrvLockedOrPlaying(cmds[i].id)
                  /\ Len(cmds') = Len(cmds) /\ cmds'[i] # cmds[i] )
                => /\ cmds'[i].st = "err"
                   /\ srvHistory' = srvHistory
                   /\ ttsHistory' = ttsHistory
             /\ (cmds[i].st = "err" /\ cmds' = RemoveAt(cmds, i))
                => ttsHistory' = ttsHistory /\ fetches' = fetches
        /\ ( /\ Len(cmds') = Len(cmds) + 1
             /\ cmds'[Len(cmds')].kind = "delete" )
           => \E k \in DOMAIN ttsHistory :
                 /\ ttsHistory[k].id = cmds'[Len(cmds')].id
                 /\ ~(ttsHistory[k].locked \/ ttsHistory[k].status = "playing")
        /\ \A f \in DOMAIN fetches :
             ( /\ fetches[f].cause.kind = "delete"
               /\ fetches[f].answered
               /\ fetches' = RemoveAt(fetches, f) )
             => \A k \in DOMAIN ttsHistory' :
                   ttsHistory'[k].id # fetches[f].cause.id ]_vars

\* a delete or cancel of a locked or playing message has been rejected, the
\* message still in the history
C9_Witness ==
    \E i \in DOMAIN cmds :
       /\ cmds[i].st = "err"
       /\ cmds[i].kind \in {"delete", "cancel"}
       /\ SrvLockedOrPlaying(cmds[i].id)
       /\ \E k \in DOMAIN ttsHistory : ttsHistory[k].id = cmds[i].id

----------------------------------------------------------------------------
(* The overlay hotkey: triggers from the two sources, the handlers in flight,
   the clock, the window and the mode switch *)

\* listen('hotkey_mode_changed'): the mode is stored
HotkeyModeChanged(mode) ==
    /\ hotkeyMode # mode
    /\ hotkeyMode' = mode
    /\ UNCHANGED <<overlayPreviousWindowSaved, lastHotkeyCallTime, now, win, handlers,
                   hotkeyCalls, windowCmds, sessionSaves>>
    /\ UNCHANGED HotkeyVarsRest

NextHotkey ==
    \/ Tick
    \/ \E src \in {"keydown", "hook"} : HotkeyTrigger(src)
    \/ \E h \in DOMAIN handlers : HandlerStep(h)
    \/ \E f \in BOOLEAN : WinFocusChanged(f)
    \/ \E mode \in HotkeyModes : SetHotkeyModeDone(mode)

SpecHotkey == Init /\ [][NextHotkey]_vars

\* the window commands a call of handleWinEscHotkey has issued
CmdsOfCall(j) == { k \in DOMAIN windowCmds : windowCmds[k].call = j }

----------------------------------------------------------------------------
(* The continuous-play segmenter: the text typed into the field, the watcher and
   its cooldown, the mode and the playback status *)

HelloWorld == <<"H", "e", "l", "l", "o", " ", "w", "o", "r", "l", "d", ".">>

InputTexts == { <<>>, HelloWorld, <<"a", "b">>, <<"a", "?", "b", "!">>, <<"!">> }

NextSeg ==
    \/ \E t \in InputTexts : TextInput(t)
    \/ HandlePlay
    \/ CtrlEnter
    \/ \E b \in BOOLEAN : ContinuousPlayChanged(b)
    \/ \E s, c \in BOOLEAN : FetchTtsStatusDone(s, c)
    \/ CooldownExpired

SpecSeg == Init /\ [][NextSeg]_vars

\* the timer set by setTimeout(..., 100) runs its callback
SpecSegFair == SpecSeg /\ WF_vars(CooldownExpired)

\* the step is an input event that makes the text T, and it splits T at its
\* first terminator: one utterance T[0..p+1] is enqueued, T[p+1..] stays
SplitsAtFirstTerminator(T) ==
    \E p \in 1..Len(T) :
       /\ T[p] \in Terminators
       /\ \A q \in 1..(p - 1) : T[q] \notin Terminators
       /\ tempCount' = tempCount + 1
       /\ Len(ttsHistory') = Len(ttsHistory) + 1
       /\ ttsHistory'[1].text = SubSeq(T, 1, p)
       /\ enqueues' \ enqueues = {[n |-> tempCount', text |-> SubSeq(T, 1, p), st |-> "sent"]}
       /\ interceptedText' = SubSeq(T, p + 1, Len(T))

\* the composed text becomes T, which holds a terminator
BecomesTextWithTerminator ==
    /\ inputValue'.n # inputValue.n
    /\ inputValue'.text # interceptedText
    /\ \E p \in 1..Len(inputValue'.text) : inputValue'.text[p] \in Terminators

NoTerminator(t) == \A p \in 1..Len(t) : t[p] \notin Terminators

\* C11: in continuous mode, while the composed text holds no terminator no
\* utterance is enqueued (a step that is not a manual play and leaves a text
\* without terminator enqueues nothing and does not touch that text); a manual
\* play (the play button or Ctrl+Enter) on such a text enqueues the whole text as exactly one utterance and
\* clears the composed text.
C11_NoTerminatorWaitsForPlay ==
    [][ continuousPlay =>
          /\ ( /\ playCalls' = playCalls
               /\ inputValue'.n # inputValue.n
               /\ NoTerminator(inputValue'.text) )
             => /\ tempCount' = tempCount
                /\ ttsHistory' = ttsHistory
                /\ enqueues' = enqueues
                /\ interceptedText' = inputValue'.text
          /\ (playCalls' = playCalls /\ inputValue'.n = inputValue.n)
             => tempCount' = tempCount /\ ttsHistory' = ttsHistory
          /\ (playCalls' # playCalls /\ NoTerminator(interceptedText))
             => /\ tempCount' = tempCount + 1
                /\ ttsHistory' = <<TempMessage(tempCount', interceptedText)>> \o ttsHistory
                /\ enqueues' = enqueues \cup
                      {[n |-> tempCount', text |-> interceptedText, st |-> "sent"]}
                /\ interceptedText' = <<>> ]_vars

\* in continuous mode a text without terminator was typed, stayed in the field
\* and has then been played whole
C11_Witness ==
    /\ continuousPlay
    /\ playCalls > 0
    /\ inputValue.text = <<"a", "b">>
    /\ interceptedText = <<>>
    /\ ttsHistory # <<>>
    /\ ttsHistory[1].text = <<"a", "b">>

\* the place of a status on the path Queued -> Playing -> Completed
StatusRank == ("queued" :> 1) @@ ("playing" :> 2) @@ ("completed" :> 3)

\* a step of a tts:* handler
EventStep == srvEvents # <<>> /\ srvEvents' = Tail(srvEvents)

\* a step that merges a get_tts_history response into the history
RefreshStep == \E i \in DOMAIN fetches : fetches[i].answered /\ fetches' = RemoveAt(fetches, i)

\* C12: the status of a history entry only moves forward along
\* queued -> playing -> completed: a pushed event leaves no entry (taken by its
\* position, which the handlers keep) with a status behind the one it had, and
\* after a refresh no entry has a status behind the one every entry of the same
\* id had before.
C12_StatusOnlyMovesForward ==
    [][ /\ EventStep =>
             \A i \in DOMAIN ttsHistory :
                StatusRank[ttsHistory'[i].status] >= StatusRank[ttsHistory[i].status]
        /\ RefreshStep =>
             \A j \in DOMAIN ttsHistory' :
                \A i \in DOMAIN ttsHistory :
                   ttsHistory[i].id = ttsHistory'[j].id =>
                      \E k \in DOMAIN ttsHistory :
                         /\ ttsHistory[k].id = ttsHistory[i].id
                         /\ StatusRank[ttsHistory'[j].status] >=
                               StatusRank[ttsHistory[k].status] ]_vars

\* C13: within one overlay session (from one clearing of
\* overlayPreviousWindowSaved to the next) showWindowOverlay invokes
\* save_previous_window at most once, also with two hotkey handlers in flight,
\* and overlayPreviousWindowSaved goes from true to false only in
\* setHotkeyMode('background_blocking').
C13_SnapshotOncePerSession ==
    [][ /\ sessionSaves' <= 1
        /\ (overlayPreviousWindowSaved /\ ~overlayPreviousWindowSaved')
             => (hotkeyMode # hotkeyMode' /\ hotkeyMode' = "background_blocking") ]_vars

----------------------------------------------------------------------------
(* Notifications: showToast, hideToast and the Toast component *)

MaxToasts == 2
ToastTickMs == 1000
MaxToastTicks == 8

ToastMessages == {"m1", "m2"}
ToastTypes == {"error", "info"}
ToastDurations == {0, 2000, DefaultToastMs}

\* the timeouts that are due
DueTimers == {t \in toastTimers : t <= now}
ComponentTimerDue == hideTimer # NoTimer /\ hideTimer <= now

\* time passes, up to the next timeout
ToastTick ==
    /\ now < HOTKEY_DEBOUNCE_MS + MaxToastTicks * ToastTickMs
    /\ DueTimers = {} /\ ~ComponentTimerDue
    /\ now' = now + ToastTickMs
    /\ UNCHANGED <<hotkeyMode, overlayPreviousWindowSaved, lastHotkeyCallTime, win,
                   handlers, hotkeyCalls, windowCmds, sessionSaves>>
    /\ UNCHANGED <<keyVars, textVars, ttsVars, uiVars, toastVars, listenVars>>

\* a call of showToast
ShowToastCall(message, type, duration) ==
    /\ toastShown.at < now \/ ~toast.show
    /\ Cardinality(toastTimers) < MaxToasts
    /\ ShowToast([show |-> TRUE, message |-> message, type |-> type], duration)
    /\ UNCHANGED <<isPlaying, continuousPlay, srvHistory, srvEvents, fetches, cmds>>
    /\ UNCHANGED <<keyVars, textVars, hkVars, listenVars, uiVars>>

\* the callback of showToast's setTimeout: this.toast.show = false
ToastTimeout(t) ==
    /\ t \in DueTimers
    /\ toastTimers' = toastTimers \ {t}
    /\ toast' = [toast EXCEPT !.show = FALSE]
    /\ hiddenBy' = IF toast.show THEN "timer" ELSE hiddenBy
    /\ IF toast.show THEN ToastWatch(FALSE) ELSE UNCHANGED <<visible, hideTimer>>
    /\ UNCHANGED toastShown
    /\ UNCHANGED <<isPlaying, continuousPlay, srvHistory, srvEvents, fetches, cmds>>
    /\ UNCHANGED <<keyVars, textVars, hkVars, listenVars, uiVars>>

\* hide() of the Toast component: visible = false and emit('hide'), which the
\* main window answers with hideToast(); the watcher then finds show changed
ToastHide ==
    /\ visible' = FALSE
    /\ HideToast
    /\ UNCHANGED <<toastTimers, toastShown>>

\* the Toast component's own timeout
ComponentTimeout ==
    /\ ComponentTimerDue
    /\ hideTimer' = NoTimer
    /\ ToastHide
    /\ UNCHANGED <<isPlaying, continuousPlay, srvHistory, srvEvents, fetches, cmds>>
    /\ UNCHANGED <<keyVars, textVars, hkVars, listenVars, uiVars>>

\* the close button of the notification
ToastCloseClick ==
    /\ visible
    /\ ToastHide
    /\ UNCHANGED hideTimer
    /\ UNCHANGED <<isPlaying, continuousPlay, srvHistory, srvEvents, fetches, cmds>>
    /\ UNCHANGED <<keyVars, textVars, hkVars, listenVars, uiVars>>

NextToast ==
    \/ ToastTick
    \/ \E m \in ToastMessages, ty \in ToastTypes, d \in ToastDurations :
          ShowToastCall(m, ty, d)
    \/ \E t \in toastTimers : ToastTimeout(t)
    \/ ComponentTimeout
    \/ ToastCloseClick

SpecToast == Init /\ [][NextToast]_vars

\* a step of showToast
ShowToastStep == toastShown' # toastShown

\* C14: showToast(message, type, duration) replaces the notification shown with
\* the new message and type and makes it visible; with duration > 0 the
\* notification is hidden by its timeout when the duration has passed, not
\* before and not later; with duration 0 it stays visible until hideToast is
\* called.
C14_ToastShownThenHidden ==
    [][ /\ ShowToastStep =>
             /\ toast' = [show |-> TRUE, message |-> toastShown'.message,
                          type |-> toastShown'.type]
             /\ visible'
        /\ (toast.show /\ toastShown.duration > 0) =>
             /\ now <= toastShown.at + toastShown.duration
             /\ (~toast'.show /\ hiddenBy' = "timer") =>
                   now = toastShown.at + toastShown.duration
        /\ (toast.show /\ toastShown.duration = 0 /\ ~toast'.show) =>
             hiddenBy' = "hideToast" ]_vars

\* C15: pulls are serialized: at most one get_intercepted_keys request is
\* outstanding at any time, and a request is issued only when none is
\* outstanding, under any interleaving with the other store actions, clearKeys
\* included.
C15_AtMostOnePullOutstanding ==
    [][ /\ Len(pulls') <= 1
        /\ Len(pulls') > Len(pulls) => pulls = <<>> ]_vars

\* C16: speakTextWithHistory(text) inserts exactly one entry at index 0 of
\* ttsHistory, with a fresh 'temp-' id, the given text, status 'queued' and
\* locked = false, in the same step in which it submits exactly one enqueue_tts
\* request for that text, the backend not having answered.
C16_SpeakInsertsOneOptimisticEntry ==
    [][ tempCount' # tempCount =>
          /\ Len(ttsHistory') = Len(ttsHistory) + 1
          /\ Tail(ttsHistory') = ttsHistory
          /\ LET m == ttsHistory'[1] IN
             /\ IsTemp(m.id)
             /\ \A i \in DOMAIN ttsHistory : ttsHistory[i].id # m.id
             /\ m.text = Utterance(tempCount')
             /\ m.status = "queued"
             /\ m.locked = FALSE
             /\ \E r \in enqueues' :
                   /\ r \notin enqueues
                   /\ enqueues' = enqueues \cup {r}
                   /\ r.text = m.text
                   /\ r.st = "sent"
          /\ UNCHANGED <<srvHistory, srvEvents>> ]_vars

\* the second call has put its entry in front of the first one and its request
\* is not answered yet
C16_Witness ==
    /\ Len(ttsHistory) = 2
    /\ ttsHistory[1] = TempMessage(2, Utterance(2))
    /\ [n |-> 2, text |-> Utterance(2), st |-> "sent"] \in enqueues
    /\ \A i \in DOMAIN srvHistory : srvHistory[i].id # DurableId(2)

\* C17: when the backend has accepted an enqueue, the entry that still carries
\* the provisional id gets the returned durable id in place: its position,
\* text, timestamp, status and locked flag are unchanged, and no other entry of
\* the history is modified.
C17_AckReplacesIdInPlace ==
    [][ \A r \in enqueues :
          (r.st = "ok" /\ enqueues' = enqueues \ {r}) =>
             /\ Len(ttsHistory') = Len(ttsHistory)
             /\ \A i \in DOMAIN ttsHistory :
                   ttsHistory'[i] =
                      IF ttsHistory[i].id = <<"temp", r.n>>
                      THEN [id |-> DurableId(r.n), text |-> ttsHistory[i].text,
                            timestamp |-> ttsHistory[i].timestamp,
                            status |-> ttsHistory[i].status,
                            locked |-> ttsHistory[i].locked]
                      ELSE ttsHistory[i] ]_vars

\* the older of two entries has been acknowledged behind a newer provisional
\* entry: it has its durable id, the timestamp the store gave it and is still
\* queued
C17_Witness ==
    /\ Len(ttsHistory) = 2
    /\ IsTemp(ttsHistory[1].id)
    /\ ttsHistory[2] = [TempMessage(1, Utterance(1)) EXCEPT !.id = DurableId(1)]
    /\ \A r \in enqueues : r.n # 1

\* the entries with a provisional id and status queued or playing, and among
\* them the one enqueued last (the provisional id holds the number of its call)
ProvisionalActive ==
    {i \in DOMAIN ttsHistory :
        IsTemp(ttsHistory[i].id) /\ ttsHistory[i].status \in {"queued", "playing"}}

IsNewest(i) == \A j \in ProvisionalActive : ttsHistory[j].id[2] <= ttsHistory[i].id[2]

\* C18: a pushed status event whose id matches no history entry is applied to
\* the most recently enqueued entry whose id is still provisional and whose
\* status is queued or playing, and that entry adopts the pushed id; an event
\* whose id matches an entry is applied to that entry and changes no id; in both
\* cases nothing else in the history changes.
C18_EventTargetAndIdAdoption ==
    [][ EventStep =>
          LET e == Head(srvEvents)
              status == EventStatus[e.type]
          IN
          IF \E i \in DOMAIN ttsHistory : ttsHistory[i].id = e.id
          THEN /\ \E i \in DOMAIN ttsHistory :
                     /\ ttsHistory[i].id = e.id
                     /\ ttsHistory' = [ttsHistory EXCEPT ![i].status = status]
          ELSE IF ProvisionalActive # {}
          THEN \E i \in ProvisionalActive :
                  /\ IsNewest(i)
                  /\ ttsHistory' = [ttsHistory EXCEPT ![i].id = e.id,
                                                      ![i].status = status]
          ELSE ttsHistory' = ttsHistory ]_vars

\* of two provisional entries the newer one has adopted a pushed id and its
\* status, the older one is still provisional; and an event has been applied by
\* its id
C18_Witness ==
    /\ Len(ttsHistory) = 2
    /\ ttsHistory[1].text = Utterance(2)
    /\ ~IsTemp(ttsHistory[1].id)
    /\ ttsHistory[1].status = "completed"
    /\ ttsHistory[1].timestamp = TempMessage(2, Utterance(2)).timestamp
    /\ \E r \in enqueues : r.n = 2
    /\ IsTemp(ttsHistory[2].id)

----------------------------------------------------------------------------
(* The refresh after a lock toggle, with two utterances under way *)

NextMerge ==
    \/ Speak
    \/ \E r \in enqueues : SrvAcceptEnqueue(r)
    \/ \E r \in enqueues : EnqueueThen(r)
    \/ SrvStart
    \/ SrvFinish("tts:completed")
    \/ TtsEvent
    \/ \E id \in ShownIds : CmdStart("toggle_lock", id)
    \/ \E i \in DOMAIN cmds : SrvCommand(i)
    \/ \E i \in DOMAIN cmds : CmdDone(i)
    \/ \E i \in DOMAIN cmds : CmdFailed(i)
    \/ \E i \in DOMAIN fetches : SrvAnswerHistory(i)
    \/ \E i \in DOMAIN fetches : FetchTtsHistoryDone(i)

SpecMerge == Init /\ [][NextMerge]_vars

\* C19: a history refresh merges by id: for every id present both locally and
\* on the server, each merged entry of that id has the status of a local entry
\* of that id and the server's text, timestamp and locked flag; every local
\* entry with a provisional id that is not on the server is preserved with all
\* its fields unchanged.
C19_RefreshMergesById ==
    [][ \A f \in DOMAIN fetches :
          (fetches[f].answered /\ fetches' = RemoveAt(fetches, f)) =>
             LET server == fetches[f].list
                 local == ttsHistory
                 isLocal(id) == \E i \in DOMAIN local : local[i].id = id
                 onServer(id) == \E k \in DOMAIN server : server[k].id = id
             IN
             /\ \A k \in DOMAIN server :
                   isLocal(server[k].id) =>
                      /\ \E j \in DOMAIN ttsHistory' : ttsHistory'[j].id = server[k].id
                      /\ \A j \in DOMAIN ttsHistory' :
                            ttsHistory'[j].id = server[k].id =>
                               /\ \E i \in DOMAIN local :
                                     /\ local[i].id = server[k].id
                                     /\ ttsHistory'[j].status = local[i].status
                               /\ \E k2 \in DOMAIN server :
                                     /\ server[k2].id = server[k].id
                                     /\ ttsHistory'[j].text = server[k2].text
                                     /\ ttsHistory'[j].timestamp = server[k2].timestamp
                                     /\ ttsHistory'[j].locked = server[k2].locked
             /\ \A i \in DOMAIN local :
                   (IsTemp(local[i].id) /\ ~onServer(local[i].id)) =>
                      \E j \in DOMAIN ttsHistory' : ttsHistory'[j] = local[i] ]_vars

\* after a refresh an entry has the server's timestamp and lock beside a local
\* status the server is already past, and a provisional entry was kept
C19_Witness ==
    /\ fetches = <<>>
    /\ \E j \in DOMAIN ttsHistory :
          /\ ttsHistory[j].timestamp = ServerTimestamp
          /\ ttsHistory[j].locked
          /\ ttsHistory[j].status = "queued"
          /\ \E k \in DOMAIN srvHistory :
                /\ srvHistory[k].id = ttsHistory[j].id
                /\ srvHistory[k].status # "queued"
    /\ \E i \in DOMAIN ttsHistory : IsTemp(ttsHistory[i].id)

\* the handler of call c among hs, or a record that says it has finished
HandlerOfCall(hs, c) ==
    IF \E i \in DOMAIN hs : hs[i].call = c
    THEN hs[CHOOSE i \in DOMAIN hs : hs[i].call = c]
    ELSE [call |-> c, pc |-> "done"]

\* the command this step has sent, "none" when it has sent nothing
CmdSent ==
    IF Len(windowCmds') > Len(windowCmds) THEN windowCmds'[Len(windowCmds')].cmd
    ELSE "none"

\* C20: every hotkey trigger that is not debounced, in overlay_call mode, maps
\* the window state it queried to one action: minimized or not visible -> the
\* window is shown and focused (show_window_on_top), preceded by
\* save_previous_window exactly when the session has no snapshot yet; visible
\* and focused -> send_to_background_and_restore_focus; visible and not focused
\* -> setFocus only, visibility unchanged; and nothing else is sent.
C20_QueriedStateToOneAction ==
    [][ \A h \in DOMAIN handlers :
          LET r == handlers[h]
              r2 == HandlerOfCall(handlers', r.call)
          IN
          r2 # r =>
             CASE r.pc = "isMinimized" ->
                    LET b == HotkeyBranch(win.minimized, r.isVisible, r.isFocused) IN
                    /\ b = "show" => CmdSent = "none" /\ r2.pc = "overlay"
                    /\ b = "hide" => CmdSent = "send_to_background_and_restore_focus"
                    /\ b = "focus" =>
                          /\ CmdSent = "set_focus"
                          /\ win'.visible = win.visible
                          /\ win'.minimized = win.minimized
               [] r.pc = "overlay" ->
                    IF sessionSaves = 0
                    THEN CmdSent = "save_previous_window"
                    ELSE CmdSent = "show_window_on_top" /\ win'.visible /\ win'.focused
               [] r.pc = "saved" ->
                    CmdSent = "show_window_on_top" /\ win'.visible /\ win'.focused
               [] OTHER -> CmdSent = "none" ]_vars

----------------------------------------------------------------------------
(* The translator and the batched text mutator, key by key *)

LetterKeys == {"A", "a", "Q", "m"}
InsertKeys == {"Enter", "Space", "Tab", "Period", "Slash", "Digit 7"}
NoOpKeys == {"Shift", "Control", "Alt", "F1", "F12", "Win+Esc", "Left Win+Esc"}
TranslatorKeyNames == LetterKeys \cup InsertKeys \cup NoOpKeys \cup {"Backspace"}

\* texts typed into the textarea before the keys arrive
TranslatorTexts == {<<"x", "y">>}

NextTranslate ==
    \/ \E name \in TranslatorKeyNames : HookKey(name)
    \/ KeyIntercepted
    \/ FlushTextUpdate
    \/ \E t \in TranslatorTexts : TextInput(t)
    \/ \E b \in BOOLEAN : CapsLockChanged(b)
    \/ \E l \in {"en", "ru"} : InputLanguageChanged(l)

SpecTranslate == InitDelivery /\ [][NextTranslate]_vars

\* a step of the key_intercepted handler that translates the key it received
TranslateStep == pushChan # <<>> /\ pushChan' = Tail(pushChan) /\ blockingEnabled

\* the text the user intends: what is rendered followed by what is pending
Intended(text, pending) == text \o pending

\* t without its last character
WithoutLast(t, u) == Len(t) > 0 /\ Len(u) = Len(t) - 1 /\ \A i \in 1..Len(u) : u[i] = t[i]

\* C21: a Backspace key event is applied at once, not batched: the same step
\* removes the last character of interceptedText (an empty text stays empty)
\* and sets pendingTextUpdate to the empty string.
C21_BackspaceImmediate ==
    [][ (TranslateStep /\ Head(pushChan).key_name = "Backspace") =>
          /\ \/ WithoutLast(interceptedText, interceptedText')
             \/ interceptedText = <<>> /\ interceptedText' = <<>>
          /\ pendingTextUpdate' = <<>> ]_vars

\* a Backspace has shortened the typed text while an insertion before it was
\* still waiting for its flush
C21_Witness ==
    /\ inputValue.text = <<"x", "y">>
    /\ Len(interceptedKeys) = 2
    /\ interceptedKeys[1].key_name = "A"
    /\ interceptedKeys[2].key_name = "Backspace"
    /\ interceptedText = <<"x">>
    /\ pendingTextUpdate = <<>>
    /\ textUpdateScheduled

\* C22: after a Backspace event the intended text (interceptedText followed by
\* pendingTextUpdate) is the intended text before the event without its last
\* character, whatever the pending buffer held.
C22_BackspaceRemovesLastIntended ==
    [][ (TranslateStep /\ Head(pushChan).key_name = "Backspace") =>
          \/ WithoutLast(Intended(interceptedText, pendingTextUpdate),
                         Intended(interceptedText', pendingTextUpdate'))
          \/ /\ Intended(interceptedText, pendingTextUpdate) = <<>>
             /\ Intended(interceptedText', pendingTextUpdate') = <<>> ]_vars

\* the keys that insert without destroying: characters, newline, tab, space
InsertionKeys == LetterKeys \cup InsertKeys

\* C23: an insertion (character, newline, tab, space) changes only
\* pendingTextUpdate, by one character, and leaves interceptedText alone; at most
\* one flush is scheduled at a time; a flush appends the whole pending buffer to
\* interceptedText, empties it and clears the scheduled flag.
C23_InsertionsBatchedOneFlush ==
    [][ /\ (TranslateStep /\ Head(pushChan).key_name \in InsertionKeys) =>
              /\ interceptedText' = interceptedText
              /\ Len(pendingTextUpdate') = Len(pendingTextUpdate) + 1
              /\ SubSeq(pendingTextUpdate', 1, Len(pendingTextUpdate)) = pendingTextUpdate
              /\ textUpdateScheduled'
        /\ scheduledFrames' <= 1
        /\ (scheduledFrames' < scheduledFrames) =>
              /\ interceptedText' = interceptedText \o pendingTextUpdate
              /\ pendingTextUpdate' = <<>>
              /\ ~textUpdateScheduled'
              /\ scheduledFrames' = 0 ]_vars

\* two insertions wait in the pending buffer for one scheduled flush, the typed
\* text still as it was
C23_Witness ==
    /\ Len(pendingTextUpdate) = 2
    /\ interceptedText = <<"x", "y">>
    /\ textUpdateScheduled
    /\ scheduledFrames = 1
    /\ pushChan = <<>>

\* the two cases of a letter, from the table of pairs
CapitalOf(c) == IF c \in DOMAIN UpperOf THEN UpperOf[c] ELSE c
IsCapital(c) == \E l \in DOMAIN UpperOf : UpperOf[l] = c
IsSmall(c) == c \in DOMAIN UpperOf
SameLetter(c, d) == CapitalOf(c) = CapitalOf(d)

\* C24: an alphabetic key inserts the layout substitution of the key (the key
\* itself for "en", its entry of the QWERTY -> JCUKEN table for "ru"), in upper
\* case when capsLock is on and in lower case when it is off, whatever the case
\* of the incoming key name.
C24_LayoutThenCapsLock ==
    [][ (TranslateStep /\ Head(pushChan).key_name \in LetterKeys) =>
          LET name == Head(pushChan).key_name
              base == IF inputLanguage = "ru" THEN ruLayout[CapitalOf(name)] ELSE name
              c == pendingTextUpdate'[Len(pendingTextUpdate')]
          IN /\ pendingTextUpdate' = Append(pendingTextUpdate, c)
             /\ SameLetter(c, base)
             /\ IF capsLock THEN IsCapital(c) ELSE IsSmall(c) ]_vars

\* key "A" under the "ru" layout with capsLock off has inserted the small
\* Cyrillic letter of that key
C24_Witness ==
    /\ inputLanguage = "ru"
    /\ ~capsLock
    /\ latestKey # None
    /\ latestKey.key_name = "A"
    /\ pushChan = <<>>
    /\ pendingTextUpdate = <<"u0444">>

\* C25: modifier keys, function keys and the names of the reserved combo
\* Win+Esc are no-ops in the translator: interceptedText and pendingTextUpdate
\* are as they were.
C25_NoOpKeysLeaveText ==
    [][ (TranslateStep /\ Head(pushChan).key_name \in NoOpKeys) =>
          /\ interceptedText' = interceptedText
          /\ pendingTextUpdate' = pendingTextUpdate ]_vars

\* the reserved combo arrived after a letter and left the letter pending
C25_Witness ==
    /\ Len(interceptedKeys) = 2
    /\ interceptedKeys[1].key_name = "Q"
    /\ interceptedKeys[2].key_name = "Left Win+Esc"
    /\ Len(pendingTextUpdate) = 1
    /\ interceptedText = <<"x", "y">>

\* the first entry of the history that carries the id
FirstWithId(id) ==
    CHOOSE i \in DOMAIN ttsHistory :
       /\ ttsHistory[i].id = id
       /\ \A j \in 1..(i - 1) : ttsHistory[j].id # id

\* C27: a tts:failed event marks the history entry of its id Completed and shows
\* an error notification whose message is the error of the event; nothing is
\* submitted again: no enqueue request is issued and no entry is added.
C27_FailedCompletesAndNotifies ==
    [][ (EventStep /\ Head(srvEvents).type = "tts:failed") =>
          LET e == Head(srvEvents) IN
          /\ (\E i \in DOMAIN ttsHistory : ttsHistory[i].id = e.id) =>
                /\ ttsHistory'[FirstWithId(e.id)].id = e.id
                /\ ttsHistory'[FirstWithId(e.id)].status = "completed"
          /\ toast'.show /\ toast'.type = "error" /\ toast'.message = e.error
          /\ visible'
          /\ enqueues' = enqueues
          /\ tempCount' = tempCount
          /\ Len(ttsHistory') = Len(ttsHistory) ]_vars

\* the error of a failed utterance is on display, its entry is Completed and no
\* request is in flight
C27_Witness ==
    /\ toast.show /\ toast.type = "error" /\ toast.message = "provider error"
    /\ enqueues = {}
    /\ srvEvents = <<>>
    /\ \E i \in DOMAIN ttsHistory :
          /\ ~IsTemp(ttsHistory[i].id)
          /\ ttsHistory[i].status = "completed"
    /\ \E i \in DOMAIN srvHistory : srvHistory[i].status = "completed"

\* the sequence numbers of ks never decrease
Ascending(ks) == \A i, j \in DOMAIN ks : i < j => ks[i].seq_num <= ks[j].seq_num

\* C26: a pull asks for the events strictly after the current watermark, with
\* no lower bound (-1) when nothing has been applied yet; the batch it receives
\* is applied in ascending seq_num order whatever the order of the response; a
\* pushed event is applied as it arrives, the oldest undelivered one first.
C26_PullAfterWatermarkAscending ==
    [][ /\ (Len(pulls') = Len(pulls) + 1) =>
              LET p == pulls'[Len(pulls')] IN
              /\ lastProcessedSeqNum >= 0 => p.afterSeq = lastProcessedSeqNum
              /\ lastProcessedSeqNum < 0 => p.afterSeq = -1
        /\ \A i \in DOMAIN pulls :
              (/\ pulls[i].answered /\ pulls' = RemoveAt(pulls, i)
               /\ blockingEnabled /\ pulls[i].keys # <<>>) =>
                 \E ks \in Orderings(pulls[i].keys) :
                    /\ Ascending(ks)
                    /\ LET st == ProcessAll(TextState, ks, inputLanguage, capsLock)
                       IN  interceptedText' = st.text /\ pendingTextUpdate' = st.pending
        /\ TranslateStep =>
              LET st == processInterceptedKey(TextState, Head(pushChan).key_name,
                                              inputLanguage, capsLock)
              IN  interceptedText' = st.text /\ pendingTextUpdate' = st.pending ]_vars

\* a pull has applied "A" and then "Backspace", both still undelivered as pushed
\* events, and moved the watermark to the later one
C26_Witness ==
    /\ Len(pushChan) = 2
    /\ pushChan[1].key_name = "A" /\ pushChan[2].key_name = "Backspace"
    /\ pulls = <<>>
    /\ lastProcessedSeqNum = 1
    /\ textUpdateScheduled
    /\ pendingTextUpdate = <<>>
    /\ interceptedText = <<>>

\* C28: when a fetchKeys call that issued a request ends, by the answer or by a
\* failure, fetchingKeys is false; the flag is set only while a request is
\* outstanding; a failed pull leaves the watermark, interceptedText and
\* pendingTextUpdate as they were.
C28_PullGuardReleased ==
    [][ /\ (Len(pulls') < Len(pulls)) => ~fetchingKeys'
        /\ fetchingKeys' => pulls' # <<>>
        /\ \A i \in DOMAIN pulls :
              (~pulls[i].answered /\ pulls' = RemoveAt(pulls, i)) =>
                 /\ lastProcessedSeqNum' = lastProcessedSeqNum
                 /\ interceptedText' = interceptedText
                 /\ pendingTextUpdate' = pendingTextUpdate ]_vars

\* pulls have ended after one key was applied by a pull and a later one was
\* intercepted, no key delivered as an event: the flag is down, the watermark and the pending text are those of the first
\* key
C28_Witness ==
    /\ ~fetchingKeys
    /\ pulls = <<>>
    /\ lastProcessedSeqNum = 0
    /\ Len(hookKeys) = 2
    /\ Len(pushChan) = 2
    /\ pendingTextUpdate = <<"a">>
    /\ blockingEnabled

\* the utterances a step dispatches beyond those of a manual play
WatcherDispatches == (tempCount' - tempCount) - (playCalls' - playCalls)

\* C29: from the watcher's dispatch of a segment until the cooldown timer has
\* run, the watcher dispatches nothing: the step of the dispatch sends one
\* segment only, whatever text the split leaves, and while isProcessingSpeech is
\* set every utterance sent is a manual play; the timer always resets the flag.
C29_OneDispatchPerCooldown ==
    /\ [][ /\ isProcessingSpeech => WatcherDispatches = 0
           /\ (~isProcessingSpeech /\ isProcessingSpeech') => WatcherDispatches = 1
           /\ (~isProcessingSpeech /\ ~isProcessingSpeech') => WatcherDispatches = 0 ]_vars
    /\ (isProcessingSpeech ~> ~isProcessingSpeech)

\* one segment has been dispatched by the watcher and the text the split left
\* holds a terminator, undispatched during the cooldown
C29_Witness ==
    /\ isProcessingSpeech
    /\ continuousPlay /\ ~isPlaying
    /\ tempCount = 1 /\ playCalls = 0
    /\ interceptedText = <<"b", "!">>

\* C30: in continuous mode a composed text that contains a terminator does not
\* stay undispatched for ever: again and again the mode is off or the text holds
\* no terminator.
C30_TerminatorEventuallyDispatched ==
    []<>(~continuousPlay \/ NoTerminator(interceptedText))

\* a pushed status event other than tts:failed is next and findMessage will find
\* nothing for it: no entry has its id and no provisional entry is Queued or
\* Playing
UnknownIdEvent ==
    /\ srvEvents # <<>>
    /\ Head(srvEvents).type \in {"tts:started", "tts:completed", "tts:cancelled"}
    /\ \A i \in DOMAIN ttsHistory : ttsHistory[i].id # Head(srvEvents).id
    /\ \A i \in DOMAIN ttsHistory :
          ~(IsTemp(ttsHistory[i].id) /\ ttsHistory[i].status \in {"queued", "playing"})

\* C31: a tts:started, tts:completed or tts:cancelled event whose id matches no
\* history entry, when no provisional entry is Queued or Playing, leaves
\* ttsHistory unchanged and shows no notification.
C31_UnknownIdResolvedSilently ==
    [][ (UnknownIdEvent /\ EventStep) =>
          /\ ttsHistory' = ttsHistory
          /\ toast' = toast
          /\ toastShown' = toastShown
          /\ visible' = visible ]_vars

\* such an event is about to be delivered while the history still holds entries
C31_Witness ==
    /\ UnknownIdEvent
    /\ ttsHistory # <<>>

\* C32: the ids of the entries of ttsHistory are pairwise distinct in every
\* reachable state.
C32_HistoryIdsDistinct ==
    \A i, j \in DOMAIN ttsHistory : ttsHistory[i].id = ttsHistory[j].id => i = j

----------------------------------------------------------------------------
(* Listener registration from several component mounts *)

InitListen ==
    InitKeysWith(TRUE) /\ InitText /\ InitTts /\ InitHotkey /\ InitUi /\ InitToast
    /\ InitNoListeners

NextListen ==
    \/ InitializeSetup
    \/ TtsHistoryMounted
    \/ \E name \in KeyNames : HookKey(name)
    \/ KeyIntercepted
    \/ FlushTextUpdate
    \/ Speak
    \/ \E r \in enqueues : SrvAcceptEnqueue(r)
    \/ \E r \in enqueues : EnqueueThen(r)
    \/ SrvStart
    \/ \E type \in {"tts:completed", "tts:failed"} : SrvFinish(type)
    \/ TtsEvent

SpecListen == InitListen /\ [][NextListen]_vars

\* C33: however often initialize(), setupTtsEventListeners() and
\* setupStateEventListeners() are called, an event type has at most one handler,
\* and exactly one once its setup has run; so one pushed event makes one handler
\* call, and no intercepted key is processed twice.
C33_ListenersRegisteredOnce ==
    [][ /\ ttsListeners' = (IF ttsHistoryInitialized' THEN 1 ELSE 0)
        /\ stateListeners' = (IF stateEventListenersInitialized' THEN 1 ELSE 0)
        /\ Len(pushChan') <= Len(pushChan) + 1
        /\ Len(srvEvents') <= Len(srvEvents) + 1
        /\ \A i, j \in DOMAIN interceptedKeys' :
              interceptedKeys'[i].seq_num = interceptedKeys'[j].seq_num => i = j ]_vars

\* both setups have run, two keys were pushed and each was handled once, and a
\* status event was applied
C33_Witness ==
    /\ ttsHistoryInitialized /\ stateEventListenersInitialized
    /\ hookNextSeq = 2
    /\ Len(interceptedKeys) = 2
    /\ pushChan = <<>>
    /\ \E i \in DOMAIN ttsHistory : ttsHistory[i].status = "completed"
    /\ srvEvents = <<>>

\* C34: between two handler runs a non-empty pendingTextUpdate has a flush
\* scheduled; every scheduled flush runs in the end, and when it runs it moves
\* the pending buffer to the end of interceptedText.
C34_PendingAlwaysFlushed ==
    /\ [](pendingTextUpdate # <<>> => textUpdateScheduled /\ scheduledFrames > 0)
    /\ [][ (scheduledFrames' < scheduledFrames) =>
              /\ interceptedText' = interceptedText \o pendingTextUpdate
              /\ pendingTextUpdate' = <<>> ]_vars
    /\ (textUpdateScheduled ~> ~textUpdateScheduled)

\* a flush has moved two characters, applied by two different handler runs, into
\* the text
C34_Witness ==
    /\ interceptedText = <<"a", "a">>
    /\ pendingTextUpdate = <<>>
    /\ ~textUpdateScheduled
    /\ scheduledFrames = 0
    /\ pushChan = <<>>

\* clearKeys ends: after its await with the command succeeded, or in its catch
ClearSucceeds == clearReq = "ok" /\ clearReq' = "none"
ClearFails == clearReq = "sent" /\ clearReq' = "none"

\* C35: a successful clearKeys leaves interceptedText and interceptedKeys empty
\* and the watermark at -1, with nothing of the keys processed before it still
\* to come into the text (no character of theirs waiting in the pending buffer
\* for a flush already scheduled); a failed clearKeys changes none of that
\* state.
C35_ClearLeavesNothingBehind ==
    [][ /\ ClearSucceeds =>
              /\ interceptedText' = <<>>
              /\ interceptedKeys' = <<>>
              /\ lastProcessedSeqNum' = -1
              /\ pendingTextUpdate' = <<>>
        /\ ClearFails =>
              UNCHANGED <<interceptedText, interceptedKeys, lastProcessedSeqNum,
                          pendingTextUpdate, latestKey>> ]_vars

\* the text of the n-th enqueue request sent
RequestText(n) == (CHOOSE r \in enqueues' : r.n = n).text

\* the utterances a step dispatches, in the order of their dispatch, as one text
RECURSIVE DispatchedFrom(_)
DispatchedFrom(n) ==
    IF n > tempCount' THEN <<>> ELSE RequestText(n) \o DispatchedFrom(n + 1)

\* the composed text a step splits: the text just typed into the field, or the
\* text of the field when play is pressed
SplitSource == IF inputValue' # inputValue THEN inputValue'.text ELSE interceptedText

\* C36: segmentation loses and duplicates no character: for every step of the
\* watcher or of a manual play that dispatches, the dispatched utterances
\* followed by the retained composed text are the composed text that was split.
C36_SplitKeepsEveryCharacter ==
    [][ (tempCount' > tempCount) =>
           DispatchedFrom(tempCount + 1) \o interceptedText' = SplitSource ]_vars

\* the watcher has split "a?b!" into the utterance "a?" and the retained "b!"
C36_Witness ==
    /\ inputValue.text = <<"a", "?", "b", "!">>
    /\ interceptedText = <<"b", "!">>
    /\ \E r \in enqueues : r.text = <<"a", "?">>
    /\ tempCount = 1 /\ playCalls = 0
    /\ isProcessingSpeech

----------------------------------------------------------------------------
(* The hotkey mode set by this window and changed from elsewhere *)

NextMode ==
    \/ NextHotkey
    \/ \E mode \in HotkeyModes : HotkeyModeChanged(mode)

SpecMode == Init /\ [][NextMode]_vars

\* C37: whenever hotkeyMode is 'background_blocking', overlayPreviousWindowSaved
\* is false.
C37_BackgroundModeHasNoSnapshot ==
    hotkeyMode = "background_blocking" => ~overlayPreviousWindowSaved

\* C38: a notification shown by showToast at time t with duration d > 0 is not
\* hidden by a showToast timer before t + d: the timer of an earlier call never
\* hides a later notification before the later one's duration has elapsed.
C38_ToastKeptForItsDuration ==
    [][ (/\ toast.show /\ toastShown.duration > 0
         /\ ~toast'.show /\ hiddenBy' = "timer") =>
           now >= toastShown.at + toastShown.duration ]_vars

\* C39: while blockingEnabled is false no key event changes the text: a pushed
\* key_intercepted event moves the watermark up to its seq_num and is appended
\* to interceptedKeys and stored as latestKey, but leaves interceptedText and
\* pendingTextUpdate alone; a pull response received then changes neither the
\* text, the pending buffer nor the watermark.
C39_NoTextWhileBlockingOff ==
    [][ ~blockingEnabled =>
          /\ (pushChan # <<>> /\ pushChan' = Tail(pushChan)) =>
                /\ interceptedText' = interceptedText
                /\ pendingTextUpdate' = pendingTextUpdate
                /\ interceptedKeys' = Append(interceptedKeys, Head(pushChan))
                /\ latestKey' = Head(pushChan)
                /\ lastProcessedSeqNum' >= Head(pushChan).seq_num
                /\ lastProcessedSeqNum' >= lastProcessedSeqNum
          /\ (\E i \in DOMAIN pulls : pulls[i].answered /\ pulls' = RemoveAt(pulls, i)) =>
                /\ interceptedText' = interceptedText
                /\ pendingTextUpdate' = pendingTextUpdate
                /\ lastProcessedSeqNum' = lastProcessedSeqNum ]_vars

\* with blocking off two keys were pushed and recorded and no pull is
\* outstanding: the watermark is at the second key and the text is empty
C39_Witness ==
    /\ ~blockingEnabled
    /\ Len(interceptedKeys) = 2
    /\ latestKey.seq_num = 1
    /\ lastProcessedSeqNum = 1
    /\ pushChan = <<>> /\ pulls = <<>>
    /\ interceptedText = <<>> /\ pendingTextUpdate = <<>>
    /\ ~textUpdateScheduled

\* the ids of the entries of a history
IdsOf(h) == {h[i].id : i \in DOMAIN h}

\* C40: after a successful refresh the ids of ttsHistory are the ids of the
\* server's list together with the local provisional ids the server does not
\* list, so a local entry with a durable id the server no longer lists is
\* dropped; a failed refresh leaves ttsHistory as it was.
C40_RefreshIdSet ==
    [][ \A f \in DOMAIN fetches :
          (fetches' = RemoveAt(fetches, f)) =>
             IF fetches[f].answered
             THEN IdsOf(ttsHistory') =
                     IdsOf(fetches[f].list) \cup
                     {id \in IdsOf(ttsHistory) : IsTemp(id) /\ id \notin IdsOf(fetches[f].list)}
             ELSE ttsHistory' = ttsHistory ]_vars

\* the entry deleted on the server is gone from the history after the refresh,
\* the server still listing nothing
C40_Witness ==
    /\ tempCount = 1
    /\ enqueues = {}
    /\ ttsHistory = <<>>
    /\ srvHistory = <<>>
    /\ fetches = <<>>
    /\ cmds = <<>>

====
